---- MODULE Spec2Model ----
(***************************************************************************)
(* Bluesky MCP server: the process-wide session (auth/bluesky.ts), the     *)
(* synthetic response generators (mocks/responses.ts, resources/           *)
(* timeline.ts) and the tool / resource handlers (tools/post.ts,           *)
(* resources/timeline.ts).                                                 *)
(*                                                                         *)
(* JavaScript strings are TLA+ strings (TLC evaluates Len, \o and SubSeq   *)
(* on them), so includes / startsWith / parseInt / String are computed     *)
(* character by character.  Handlers are async functions: every `await`    *)
(* is a point where other invocations and clearAuthentication may          *)
(* interleave, so a handler is one action per segment between two awaits.  *)
(* The emoji of the message templates are left out of the texts.           *)
(***************************************************************************)
EXTENDS Integers, Sequences, FiniteSets, TLC

(* ---------------------------- bounds ---------------------------------- *)
\* handler invocations that may be in flight at the same time
NumProcs == 2
\* mock posts generated in one behaviour (caps postCounter)
MaxPosts == 2

(* ------------------------- JavaScript values -------------------------- *)
\* the value `undefined` of a string-typed variable
UNDEFINED == "<undefined>"
\* an optional non-string value: <<>> is undefined / NaN, <<v>> is v
None == <<>>
Some(v) == <<v>>

\* !v for a string | undefined
Falsy(v) == v = UNDEFINED \/ v = ""
\* a || b
OrElse(a, b) == IF Falsy(a) THEN b ELSE a

\* String.prototype.includes
Includes(s, sub) ==
  \E i \in 0..(Len(s) - Len(sub)) : SubSeq(s, i + 1, i + Len(sub)) = sub
\* String.prototype.startsWith
StartsWith(s, pre) == Len(s) >= Len(pre) /\ SubSeq(s, 1, Len(pre)) = pre
\* s.slice(-n)
SliceLast(s, n) == IF Len(s) <= n THEN s ELSE SubSeq(s, Len(s) - n + 1, Len(s))
\* s.padStart(n, c)
RECURSIVE PadStart(_, _, _)
PadStart(s, n, c) == IF Len(s) >= n THEN s ELSE PadStart(c \o s, n, c)

DigitChars == <<"0", "1", "2", "3", "4", "5", "6", "7", "8", "9">>
IsDigit(c) == \E d \in 1..10 : DigitChars[d] = c
DigitVal(c) == (CHOOSE d \in 1..10 : DigitChars[d] = c) - 1
CharAt(s, i) == SubSeq(s, i, i)

\* String(n) for an integer n
RECURSIVE IntToStr(_)
IntToStr(n) ==
  IF n < 0 THEN "-" \o IntToStr(-n)
  ELSE IF n < 10 THEN DigitChars[n + 1]
  ELSE IntToStr(n \div 10) \o DigitChars[(n % 10) + 1]

\* the digits of s from position i on: <<number of digits, their value>>
RECURSIVE LeadingDigits(_, _, _, _)
LeadingDigits(s, i, count, acc) ==
  IF i <= Len(s) /\ IsDigit(CharAt(s, i))
  THEN LeadingDigits(s, i + 1, count + 1, acc * 10 + DigitVal(CharAt(s, i)))
  ELSE <<count, acc>>

RECURSIVE SkipSpaces(_, _)
SkipSpaces(s, i) ==
  IF i <= Len(s) /\ CharAt(s, i) \in {" ", "\t", "\n"} THEN SkipSpaces(s, i + 1) ELSE i

\* parseInt(s, 10): None is NaN.  Leading white space, an optional sign, then
\* the longest run of digits; what follows the digits is ignored.
ParseInt(s) ==
  LET i == SkipSpaces(s, 1)
      neg == i <= Len(s) /\ CharAt(s, i) = "-"
      j == IF i <= Len(s) /\ CharAt(s, i) \in {"-", "+"} THEN i + 1 ELSE i
      d == LeadingDigits(s, j, 0, 0)
  IN IF d[1] = 0 THEN None ELSE Some(IF neg THEN -d[2] ELSE d[2])

\* new Date(t).toISOString(): millisecond resolution, one string per instant
ToISOString(t) == "T" \o IntToStr(t) \o "Z"
\* new Date(s).getTime() for a string s that toISOString produced
FromISOString(s) == ParseInt(SubSeq(s, 2, Len(s) - 1))[1]
\* new Date(t).toLocaleString(): second resolution
ToLocaleString(t) == "L" \o IntToStr(t \div 1000)

\* a thrown value: an Error with a message, or something that is no Error
Err(m) == [instanceofError |-> TRUE, message |-> m]
NonError == [instanceofError |-> FALSE, message |-> UNDEFINED]
\* `e instanceof Error ? e.message : 'Unknown error'`
MessageOf(e) == IF e.instanceofError THEN e.message ELSE "Unknown error"

(* --------------------------- input domains ---------------------------- *)
\* states of process.env: nothing set, two complete credential sets, and an
\* identifier without a password
Env(identifier, password, service) ==
  [BLUESKY_IDENTIFIER |-> identifier, BLUESKY_PASSWORD |-> password,
   BLUESKY_SERVICE |-> service]
Environments ==
  { Env(UNDEFINED, UNDEFINED, UNDEFINED),
    Env("alice.test", "pw-a", UNDEFINED),
    Env("bob.test", "pw-b", "https://pds.example"),
    Env("alice.test", UNDEFINED, UNDEFINED) }
\* configs initializeBlueskyAuth is called with directly
Configs ==
  { [identifier |-> "alice.test", password |-> "pw-a", service |-> UNDEFINED],
    [identifier |-> "bob.test", password |-> "pw-b", service |-> "https://pds.example"] }
\* instants Date.now() may return (epoch milliseconds, scaled to fit TLC's integers)
Times == {9000000, 9000001}
\* arguments of bluesky_post that pass its input schema: a text of 1..300
\* characters and media that is absent or a list of URLs
PostArgs ==
  { [text |-> "hello", media |-> None],
    [text |-> "bye", media |-> Some(<<"https://example.com/a.png">>)] }
\* postUri arguments of bluesky_delete_post
ValidUri == "at://did:plc:alice123/app.bsky.feed.post/abc123"
PostUris == {ValidUri, "", "invalid-uri", "https://example.com/post/1"}
\* limit / cursor template variables of bluesky://timeline
TimelineParams ==
  { [limit |-> UNDEFINED, cursor |-> UNDEFINED],
    [limit |-> "2", cursor |-> UNDEFINED],
    [limit |-> "3", cursor |-> "5"],
    [limit |-> "2", cursor |-> "abc"],
    [limit |-> "0", cursor |-> UNDEFINED],
    [limit |-> "101", cursor |-> "5"],
    [limit |-> "abc", cursor |-> UNDEFINED] }
\* values agent.login() may reject with
LoginThrows ==
  { Err("Invalid identifier or password"),
    Err("Network Error"),
    Err("Rate limit exceeded"),
    Err("Network Error: Rate limit exceeded"),
    Err("Profile not found"),
    NonError }
\* values agent.post() / agent.deletePost() / agent.getAuthorFeed() may reject with
ApiThrows ==
  { Err("Could not find record"),
    Err("unauthorized"),
    Err("forbidden: record not found"),
    Err("fetch failed"),
    NonError }

(* ----------------------------- variables ------------------------------ *)
VARIABLES
  env,          \* process.env: BLUESKY_IDENTIFIER, BLUESKY_PASSWORD, BLUESKY_SERVICE
  globalAgent,  \* auth/bluesky.ts `globalAgent`: an AtpAgent, or NullAgent
  postCounter,  \* mocks/responses.ts `postCounter`
  inv           \* the handler invocations: position, arguments, locals, response

vars == <<env, globalAgent, postCounter, inv>>

Procs == 1..NumProcs
\* `null` as the value of globalAgent
NullAgent == [null |-> TRUE]

(* ------------------------- auth/bluesky.ts ---------------------------- *)
\* `null` as the result of getAuthConfigFromEnv
NullConfig == [null |-> TRUE]

\* Faulty variant: only the identifier is tested.
getAuthConfigFromEnvIdentifierOnly(e) ==
  IF Falsy(e.BLUESKY_IDENTIFIER)
  THEN NullConfig
  ELSE [identifier |-> e.BLUESKY_IDENTIFIER,
        password |-> e.BLUESKY_PASSWORD,
        service |-> e.BLUESKY_SERVICE]

getAuthConfigFromEnv(e) ==
  IF Falsy(e.BLUESKY_IDENTIFIER) \/ Falsy(e.BLUESKY_PASSWORD)
  THEN NullConfig
  ELSE [identifier |-> e.BLUESKY_IDENTIFIER,
        password |-> e.BLUESKY_PASSWORD,
        service |-> e.BLUESKY_SERVICE]

\* new AtpAgent({ service: config.service || 'https://bsky.social' }).  id tells
\* the objects apart.  An agent is written only by its own login, before any
\* other reference to it exists, so the objects are kept by value.
NewAgent(id, config) ==
  [id |-> id,
   service |-> OrElse(config.service, "https://bsky.social"),
   session |-> UNDEFINED]

\* the session an agent holds after a successful login (its did)
SessionOf(identifier) == "did:plc:" \o identifier

\* Faulty variant: the 'Rate limit' test comes before the 'Network Error' test.
AuthErrorRateLimitFirst(e) ==
  LET m == e.message
      has(sub) == m # UNDEFINED /\ Includes(m, sub)
  IN IF has("Invalid identifier or password")
     THEN Err("Invalid Bluesky credentials. Please check your identifier and password.")
     ELSE IF has("Rate limit")
     THEN Err("Rate limited by Bluesky. Please try again later.")
     ELSE IF has("Network Error")
     THEN Err("Network error connecting to Bluesky. Please check your internet connection.")
     ELSE Err("Authentication failed: " \o OrElse(m, "Unknown error"))

\* the catch block of initializeBlueskyAuth: the error it throws for a login
\* that rejected with e.  `message?.includes` is false on an undefined message.
AuthError(e) ==
  LET m == e.message
      has(sub) == m # UNDEFINED /\ Includes(m, sub)
  IN IF has("Invalid identifier or password")
     THEN Err("Invalid Bluesky credentials. Please check your identifier and password.")
     ELSE IF has("Network Error")
     THEN Err("Network error connecting to Bluesky. Please check your internet connection.")
     ELSE IF has("Rate limit")
     THEN Err("Rate limited by Bluesky. Please try again later.")
     ELSE Err("Authentication failed: " \o OrElse(m, "Unknown error"))

\* what getAuthenticatedAgent throws when globalAgent is null
NotAuthenticated ==
  Err("Not authenticated with Bluesky. Please initialize authentication first.")

\* Faulty variant: `===` in place of `!==` in the test of globalAgent.
isAuthenticatedNullSlip ==
  globalAgent = NullAgent \/ globalAgent.session # UNDEFINED

\* isAuthenticated()
isAuthenticated ==
  globalAgent # NullAgent /\ globalAgent.session # UNDEFINED

(* ------------------------ mocks/responses.ts -------------------------- *)
MockAuthor ==
  [did |-> "did:plc:mockuser123", handle |-> "mockuser.bsky.social",
   displayName |-> "Mock User"]

\* Faulty variant: the post id is built from the timestamp alone.
generateMockPostResponseNoCounter(text, media, timestamp, counter, created) ==
  LET postId == "mock_post_" \o IntToStr(timestamp)
  IN [uri |-> "at://did:plc:mockuser123/app.bsky.feed.post/" \o postId,
      cid |-> "bafyrei" \o PadStart(SliceLast(postId, 20), 20, "0"),
      text |-> text,
      media |-> IF media = None THEN <<>> ELSE media[1],
      createdAt |-> ToISOString(created),
      author |-> MockAuthor,
      replyCount |-> 0, repostCount |-> 0, likeCount |-> 0]

\* Faulty variant: only the first media URL is kept.
generateMockPostResponseFirstMedia(text, media, timestamp, counter, created) ==
  LET postId == "mock_post_" \o IntToStr(timestamp) \o "_" \o IntToStr(counter)
  IN [uri |-> "at://did:plc:mockuser123/app.bsky.feed.post/" \o postId,
      cid |-> "bafyrei" \o PadStart(SliceLast(postId, 20), 20, "0"),
      text |-> text,
      media |-> IF media = None THEN <<>>
                ELSE IF Len(media[1]) > 1 THEN SubSeq(media[1], 1, 1) ELSE media[1],
      createdAt |-> ToISOString(created),
      author |-> MockAuthor,
      replyCount |-> 0, repostCount |-> 0, likeCount |-> 0]

\* Faulty variant: the media default is a list holding the empty URL, and the
\* like count is the counter.
generateMockPostResponseOtherDefaults(text, media, timestamp, counter, created) ==
  LET postId == "mock_post_" \o IntToStr(timestamp) \o "_" \o IntToStr(counter)
  IN [uri |-> "at://did:plc:mockuser123/app.bsky.feed.post/" \o postId,
      cid |-> "bafyrei" \o PadStart(SliceLast(postId, 20), 20, "0"),
      text |-> text,
      media |-> IF media = None THEN <<"">> ELSE media[1],
      createdAt |-> ToISOString(created),
      author |-> MockAuthor,
      replyCount |-> 0, repostCount |-> 0, likeCount |-> counter]

\* generateMockPostResponse(text, media) with `timestamp` = Date.now(),
\* `counter` = ++postCounter and `created` the instant of new Date()
generateMockPostResponse(text, media, timestamp, counter, created) ==
  LET postId == "mock_post_" \o IntToStr(timestamp) \o "_" \o IntToStr(counter)
  IN [uri |-> "at://did:plc:mockuser123/app.bsky.feed.post/" \o postId,
      cid |-> "bafyrei" \o PadStart(SliceLast(postId, 20), 20, "0"),
      text |-> text,
      media |-> IF media = None THEN <<>> ELSE media[1],
      createdAt |-> ToISOString(created),
      author |-> MockAuthor,
      replyCount |-> 0, repostCount |-> 0, likeCount |-> 0]

formatPostSuccessMessage(response) ==
  LET mediaInfo == IF Len(response.media) > 0
                   THEN "\nMedia attachments: " \o IntToStr(Len(response.media))
                   ELSE ""
  IN "Post created successfully!\nPost URI: " \o response.uri
     \o "\nAuthor: @" \o response.author.handle
     \o "\nText: \"" \o response.text \o "\"" \o mediaInfo
     \o "\nCreated: " \o ToLocaleString(FromISOString(response.createdAt))

(* ----------------- resources/timeline.ts: the generator ---------------- *)
\* a value a function returned, or the value it threw
Returned(v) == [threw |-> FALSE, value |-> v]
Threw(e) == [threw |-> TRUE, error |-> e]

\* the number of digits of s from position i on
RECURSIVE CountDigits(_, _)
CountDigits(s, i) ==
  IF i <= Len(s) /\ IsDigit(CharAt(s, i)) THEN 1 + CountDigits(s, i + 1) ELSE 0

\* parseInt(cursor, 10) is 10^12 or more: the digits it reads are 13 or more
\* and begin with a digit other than 0.  Then Date.now() - postIndex * 60000 is
\* below -8.64e15, outside the time values a Date can hold, and
\* new Date(timestamp) is an invalid date.
DateOutOfRange(cursor) ==
  /\ ~Falsy(cursor)
  /\ LET i == SkipSpaces(cursor, 1)
         j == IF i <= Len(cursor) /\ CharAt(cursor, i) \in {"-", "+"} THEN i + 1 ELSE i
     IN /\ CountDigits(cursor, j) >= 13
        /\ CharAt(cursor, j) # "0"

\* Faulty variant: the timestamps are not stepped back by the index.
generateMockTimelineNoStep(limit, cursor, clock, rnd, generated) ==
  LET startIndex == IF Falsy(cursor) THEN Some(0) ELSE ParseInt(cursor)
      n == IF limit > 0 THEN limit ELSE 0
      entry(i) ==
        LET postIndex == startIndex[1] + i
            timestamp == clock[i]
            postId == "mock_timeline_post_" \o IntToStr(timestamp)
                      \o "_" \o IntToStr(postIndex)
        IN [uri |-> "at://did:plc:mockuser123/app.bsky.feed.post/" \o postId,
            cid |-> "bafyrei" \o PadStart(SliceLast(postId, 20), 20, "0"),
            author |-> MockAuthor,
            record |-> [type |-> "app.bsky.feed.post",
                        text |-> "Mock timeline post #" \o IntToStr(postIndex + 1)
                                 \o " - " \o ToLocaleString(timestamp),
                        createdAt |-> ToISOString(timestamp)],
            replyCount |-> rnd[i].replyCount,
            repostCount |-> rnd[i].repostCount,
            likeCount |-> rnd[i].likeCount,
            indexedAt |-> ToISOString(timestamp)]
  IN IF n > 0 /\ (DateOutOfRange(cursor) \/ startIndex = None)
     THEN Threw(Err("Invalid time value"))
     ELSE LET posts == [k \in 1..n |-> entry(k - 1)]
              nextCursor ==
                IF Len(posts) = limit /\ limit > 0
                THEN (IF startIndex = None THEN "NaN"
                      ELSE IntToStr(startIndex[1] + limit))
                ELSE UNDEFINED
          IN Returned(
               [feed |-> posts,
                cursor |-> nextCursor,
                total |-> Len(posts),
                metadata |->
                  [source |-> "mock",
                   generated_at |-> ToISOString(generated),
                   user |-> "mockuser.bsky.social",
                   query_params |->
                     [limit |-> limit,
                      cursor |-> IF Falsy(cursor) THEN "null" ELSE cursor]]])

\* Faulty variant: the `limit > 0` test of the next cursor is missing.
generateMockTimelineCursorAlways(limit, cursor, clock, rnd, generated) ==
  LET startIndex == IF Falsy(cursor) THEN Some(0) ELSE ParseInt(cursor)
      n == IF limit > 0 THEN limit ELSE 0
      entry(i) ==
        LET postIndex == startIndex[1] + i
            timestamp == clock[i] - (postIndex * 60000)
            postId == "mock_timeline_post_" \o IntToStr(timestamp)
                      \o "_" \o IntToStr(postIndex)
        IN [uri |-> "at://did:plc:mockuser123/app.bsky.feed.post/" \o postId,
            cid |-> "bafyrei" \o PadStart(SliceLast(postId, 20), 20, "0"),
            author |-> MockAuthor,
            record |-> [type |-> "app.bsky.feed.post",
                        text |-> "Mock timeline post #" \o IntToStr(postIndex + 1)
                                 \o " - " \o ToLocaleString(timestamp),
                        createdAt |-> ToISOString(timestamp)],
            replyCount |-> rnd[i].replyCount,
            repostCount |-> rnd[i].repostCount,
            likeCount |-> rnd[i].likeCount,
            indexedAt |-> ToISOString(timestamp)]
  IN IF n > 0 /\ (DateOutOfRange(cursor) \/ startIndex = None)
     THEN Threw(Err("Invalid time value"))
     ELSE LET posts == [k \in 1..n |-> entry(k - 1)]
              nextCursor ==
                IF Len(posts) = limit
                THEN (IF startIndex = None THEN "NaN"
                      ELSE IntToStr(startIndex[1] + limit))
                ELSE UNDEFINED
          IN Returned(
               [feed |-> posts,
                cursor |-> nextCursor,
                total |-> Len(posts),
                metadata |->
                  [source |-> "mock",
                   generated_at |-> ToISOString(generated),
                   user |-> "mockuser.bsky.social",
                   query_params |->
                     [limit |-> limit,
                      cursor |-> IF Falsy(cursor) THEN "null" ELSE cursor]]])

\* generateMockTimeline(limit, cursor).  clock[i] is what Date.now() returns in
\* iteration i of the loop, rnd[i] the random draws of that iteration, generated
\* the instant of the final new Date().  A cursor parseInt reads as NaN makes
\* every timestamp NaN, and new Date(NaN).toISOString() throws a RangeError in
\* the first iteration, and so does a cursor that puts the timestamps outside
\* the range of Date.
generateMockTimeline(limit, cursor, clock, rnd, generated) ==
  LET startIndex == IF Falsy(cursor) THEN Some(0) ELSE ParseInt(cursor)
      n == IF limit > 0 THEN limit ELSE 0
      entry(i) ==
        LET postIndex == startIndex[1] + i
            timestamp == clock[i] - (postIndex * 60000)
            postId == "mock_timeline_post_" \o IntToStr(timestamp)
                      \o "_" \o IntToStr(postIndex)
        IN [uri |-> "at://did:plc:mockuser123/app.bsky.feed.post/" \o postId,
            cid |-> "bafyrei" \o PadStart(SliceLast(postId, 20), 20, "0"),
            author |-> MockAuthor,
            record |-> [type |-> "app.bsky.feed.post",
                        text |-> "Mock timeline post #" \o IntToStr(postIndex + 1)
                                 \o " - " \o ToLocaleString(timestamp),
                        createdAt |-> ToISOString(timestamp)],
            replyCount |-> rnd[i].replyCount,
            repostCount |-> rnd[i].repostCount,
            likeCount |-> rnd[i].likeCount,
            indexedAt |-> ToISOString(timestamp)]
  IN IF n > 0 /\ (DateOutOfRange(cursor) \/ startIndex = None)
     THEN Threw(Err("Invalid time value"))
     ELSE LET posts == [k \in 1..n |-> entry(k - 1)]
              nextCursor ==
                IF Len(posts) = limit /\ limit > 0
                THEN (IF startIndex = None THEN "NaN"
                      ELSE IntToStr(startIndex[1] + limit))
                ELSE UNDEFINED
          IN Returned(
               [feed |-> posts,
                cursor |-> nextCursor,
                total |-> Len(posts),
                metadata |->
                  [source |-> "mock",
                   generated_at |-> ToISOString(generated),
                   user |-> "mockuser.bsky.social",
                   query_params |->
                     [limit |-> limit,
                      cursor |-> IF Falsy(cursor) THEN "null" ELSE cursor]]])

(* ------------------------- input validation --------------------------- *)
DefaultLimit == 20
MinLimit == 1
MaxLimit == 100

\* Faulty variant: the schema without its .max(100) check.
TimelineUriSchemaParseNoMax(limit, cursor) ==
  LET n == IF Falsy(limit) THEN Some(20) ELSE ParseInt(limit)
  IN IF n = None THEN [threw |-> TRUE, error |-> Err("Expected number, received nan")]
     ELSE IF n[1] < 1
     THEN [threw |-> TRUE, error |-> Err("Number must be greater than or equal to 1")]
     ELSE [threw |-> FALSE,
           value |-> [limit |-> n[1],
                      cursor |-> IF Falsy(cursor) THEN UNDEFINED ELSE cursor]]

\* TimelineUriSchema.parse({ limit: limit ? parseInt(limit, 10) : 20,
\*                           cursor: cursor || undefined })
TimelineUriSchemaParse(limit, cursor) ==
  LET n == IF Falsy(limit) THEN Some(DefaultLimit) ELSE ParseInt(limit)
  IN IF n = None THEN Threw(Err("Expected number, received nan"))
     ELSE IF n[1] < MinLimit
     THEN Threw(Err("Number must be greater than or equal to 1"))
     ELSE IF n[1] > MaxLimit
     THEN Threw(Err("Number must be less than or equal to 100"))
     ELSE Returned([limit |-> n[1],
                    cursor |-> IF Falsy(cursor) THEN UNDEFINED ELSE cursor])

RECURSIVE AllCharsIn(_, _)
AllCharsIn(s, allowed) ==
  Len(s) = 0 \/ (Includes(allowed, CharAt(s, 1)) /\ AllCharsIn(SubSeq(s, 2, Len(s)), allowed))

\* index of the first "/" of s at or after position i (Len(s) + 1 if none)
RECURSIVE FirstSlash(_, _)
FirstSlash(s, i) ==
  IF i > Len(s) \/ CharAt(s, i) = "/" THEN i ELSE FirstSlash(s, i + 1)

LowerDigits == "abcdefghijklmnopqrstuvwxyz0123456789"
AlphaNum == "abcdefghijklmnopqrstuvwxyzABCDEFGHIJKLMNOPQRSTUVWXYZ0123456789"

\* /^at:\/\/did:[a-z0-9:]+\/app\.bsky\.feed\.post\/[a-zA-Z0-9]+$/.test(uri)
atUriRegexTest(uri) ==
  LET pre == "at://did:"
      coll == "/app.bsky.feed.post/"
      slash == FirstSlash(uri, Len(pre) + 1)
      did == SubSeq(uri, Len(pre) + 1, slash - 1)
      rest == SubSeq(uri, slash, Len(uri))
      rkey == SubSeq(rest, Len(coll) + 1, Len(rest))
  IN /\ StartsWith(uri, pre)
     /\ Len(did) >= 1 /\ AllCharsIn(did, LowerDigits \o ":")
     /\ StartsWith(rest, coll)
     /\ Len(rkey) >= 1 /\ AllCharsIn(rkey, AlphaNum)

\* Faulty variant: the schema without its .regex() check.
DeletePostSchemaMinOnly(postUri) ==
  IF Len(postUri) < 1 THEN "Post URI cannot be empty" ELSE ""

\* the inputSchema of bluesky_delete_post, which the server applies before it
\* calls the handler: the message of the first failing check, "" if none fails
DeletePostSchemaError(postUri) ==
  IF Len(postUri) < 1 THEN "Post URI cannot be empty"
  ELSE IF ~atUriRegexTest(postUri)
  THEN "Post URI must be a valid AT-URI format (at://did:plc:xxx/app.bsky.feed.post/xxx)"
  ELSE ""

\* the inputSchema of bluesky_post (the media URLs of Medias are well formed)
PostSchemaError(text) ==
  IF Len(text) < 1 THEN "Post text cannot be empty"
  ELSE IF Len(text) > 300 THEN "Post text cannot exceed 300 characters"
  ELSE ""

(* ----------------------- handler invocations --------------------------- *)
\* the handlers and directly callable operations of the repository
PostTool == "bluesky_post"                    \* src/tools/post.ts
PostToolNoMock == "bluesky_post (no mock)"    \* the revision that reports errors
DeleteTool == "bluesky_delete_post"
TimelineResource == "bluesky-timeline"        \* the revision that calls the API
TimelineResourceMock == "bluesky-timeline (mock only)"
InitCall == "initializeBlueskyAuth"           \* called directly, as the tests do

NoArgs == [none |-> TRUE]
NoResult == [none |-> TRUE]

\* One invocation: its position, the handler's locals (the arguments,
\* authConfig, the agent it holds) and, once it has returned, the result,
\* the segment it returned from (via) and the error its catch block received
\* (for a direct call of initializeBlueskyAuth, the error the login rejected with).
Slot(pc, tool, args, authConfig, agent, via, caught, result) ==
  [pc |-> pc, tool |-> tool, args |-> args, authConfig |-> authConfig,
   agent |-> agent, via |-> via, caught |-> caught, result |-> result]

Idle == Slot("idle", "", NoArgs, NullConfig, NullAgent, "", None, NoResult)

\* the invocation in slot p returns `result` from the segment it is in
Return(p, result, caught) ==
  [inv EXCEPT ![p] = Slot("done", inv[p].tool, inv[p].args, inv[p].authConfig,
                          inv[p].agent, inv[p].pc, caught, result)]

\* an invocation that returns in its first synchronous segment
ReturnAtOnce(tool, args, authConfig, caught, result) ==
  Slot("done", tool, args, authConfig, NullAgent, "start", caught, result)

ToolResult(isError, text) == [isError |-> isError, text |-> text]
\* What a reader of contents[0].text gets: JSON.stringify leaves out a key
\* whose value is undefined (of the pages built here, only cursor can be).
JSONStringify(object) ==
  IF "cursor" \in DOMAIN object /\ object.cursor = UNDEFINED
  THEN [k \in (DOMAIN object) \ {"cursor"} |-> object[k]]
  ELSE object
ResourceResult(object) == [contents |-> JSONStringify(object)]

MissingCredentialsNote ==
  "Mock response used. Set BLUESKY_IDENTIFIER and BLUESKY_PASSWORD to use real API."
MissingCredentials ==
  "Missing Bluesky credentials. Please set BLUESKY_IDENTIFIER and BLUESKY_PASSWORD environment variables."

MediaInfo(media) ==
  IF media # None /\ Len(media[1]) > 0
  THEN "\nMedia attachments: " \o IntToStr(Len(media[1]))
  ELSE ""

(* ---- tools/post.ts, bluesky_post: the revision with the mock fallback ---- *)
postSuccess(args, response, now) ==
  ToolResult(FALSE,
    "Post created successfully!\n\nPost URI: " \o response.uri
    \o "\nPost CID: " \o response.cid
    \o "\nText: \"" \o args.text \o "\""
    \o "\nCreated: " \o ToLocaleString(now) \o "\n" \o MediaInfo(args.media))

postCatch(args, apiError, mockResponse) ==
  ToolResult(FALSE,
    formatPostSuccessMessage(mockResponse)
    \o "\n\nNote: Used mock response due to API error: " \o MessageOf(apiError))

postNoCredentials(mockResponse) ==
  ToolResult(FALSE,
    formatPostSuccessMessage(mockResponse) \o "\n\nNote: " \o MissingCredentialsNote)

(* ---- bluesky_post: the revision without the mock fallback ---- *)
postCatchNoMock(args, apiError) ==
  ToolResult(TRUE, "Error creating post: " \o MessageOf(apiError))

postNoCredentialsNoMock ==
  ToolResult(TRUE, "Error creating post: " \o MissingCredentials)

(* ---- bluesky_delete_post ---- *)
deletePostSuccess(args, now) ==
  ToolResult(FALSE,
    "Post deleted successfully!\n\nDeleted post URI: " \o args.postUri
    \o "\nDeleted at: " \o ToLocaleString(now))

\* Faulty variant: a delete of a post that is not there is reported as done.
deletePostCatchIdempotent(args, apiError) ==
  IF Includes(MessageOf(apiError), "Could not find record")
  THEN ToolResult(FALSE,
         "Post deleted successfully!\n\nDeleted post URI: " \o args.postUri)
  ELSE ToolResult(TRUE,
         "Error deleting post: " \o MessageOf(apiError) \o "\n\nURI: " \o args.postUri)

\* Faulty variant: the 'unauthorized' / 'forbidden' test comes first.
deletePostCatchUnauthorizedFirst(args, apiError) ==
  LET errorMessage == MessageOf(apiError)
  IN IF Includes(errorMessage, "unauthorized") \/ Includes(errorMessage, "forbidden")
     THEN ToolResult(TRUE,
            "Error deleting post: You are not authorized to delete this post. You can only delete your own posts.\n\nURI: "
            \o args.postUri)
     ELSE IF \/ Includes(errorMessage, "not found")
             \/ Includes(errorMessage, "404")
             \/ Includes(errorMessage, "Could not find repo")
             \/ Includes(errorMessage, "Could not find record")
     THEN ToolResult(TRUE,
            "Error deleting post: Post not found. The post may have already been deleted or the URI is invalid.\n\nURI: "
            \o args.postUri)
     ELSE ToolResult(TRUE,
            "Error deleting post: " \o errorMessage \o "\n\nURI: " \o args.postUri)

deletePostCatch(args, apiError) ==
  LET errorMessage == MessageOf(apiError)
  IN IF \/ Includes(errorMessage, "not found")
        \/ Includes(errorMessage, "404")
        \/ Includes(errorMessage, "Could not find repo")
        \/ Includes(errorMessage, "Could not find record")
     THEN ToolResult(TRUE,
            "Error deleting post: Post not found. The post may have already been deleted or the URI is invalid.\n\nURI: "
            \o args.postUri)
     ELSE IF Includes(errorMessage, "unauthorized") \/ Includes(errorMessage, "forbidden")
     THEN ToolResult(TRUE,
            "Error deleting post: You are not authorized to delete this post. You can only delete your own posts.\n\nURI: "
            \o args.postUri)
     ELSE ToolResult(TRUE,
            "Error deleting post: " \o errorMessage \o "\n\nURI: " \o args.postUri)

deletePostNoCredentials ==
  ToolResult(TRUE, "Error deleting post: " \o MissingCredentials)

(* ---- resources/timeline.ts, bluesky-timeline ---- *)
timelineError(error) ==
  ResourceResult([error |-> "Failed to get timeline: " \o MessageOf(error)])

\* the page built from response.data of agent.getAuthorFeed
timelineSuccess(parsedParams, authConfig, data, now) ==
  ResourceResult(
    [feed |-> [k \in 1..Len(data.feed) |->
                 LET post == data.feed[k].post
                 IN [uri |-> post.uri, cid |-> post.cid,
                     author |-> [did |-> post.author.did,
                                 handle |-> post.author.handle,
                                 displayName |-> OrElse(post.author.displayName,
                                                        post.author.handle)],
                     record |-> post.record,
                     replyCount |-> IF post.replyCount = None THEN 0 ELSE post.replyCount[1],
                     repostCount |-> IF post.repostCount = None THEN 0 ELSE post.repostCount[1],
                     likeCount |-> IF post.likeCount = None THEN 0 ELSE post.likeCount[1],
                     indexedAt |-> post.indexedAt]],
     cursor |-> data.cursor,
     total |-> Len(data.feed),
     metadata |-> [source |-> "real_api",
                   generated_at |-> ToISOString(now),
                   user |-> authConfig.identifier,
                   query_params |-> [limit |-> parsedParams.limit,
                                     cursor |-> parsedParams.cursor]]])

\* a mock page with one more metadata field; a generator that threw reaches
\* the handler's outer catch
timelineMock(generated, field, value) ==
  IF generated.threw
  THEN timelineError(generated.error)
  ELSE LET metadata == generated.value.metadata
       IN ResourceResult(
            [generated.value EXCEPT
               !.metadata = [f \in (DOMAIN metadata) \cup {field} |->
                               IF f = field THEN value ELSE metadata[f]]])

\* Faulty variant: the fallback page keeps the tag of the live page.
timelineCatchTaggedLive(generated, apiError) ==
  IF generated.threw
  THEN timelineError(generated.error)
  ELSE LET metadata == generated.value.metadata
       IN ResourceResult(
            [generated.value EXCEPT
               !.metadata = [f \in (DOMAIN metadata) \cup {"fallback_reason"} |->
                               IF f = "fallback_reason"
                               THEN "API error: " \o MessageOf(apiError)
                               ELSE IF f = "source" THEN "real_api"
                               ELSE metadata[f]]])

timelineCatch(generated, apiError) ==
  timelineMock(generated, "fallback_reason", "API error: " \o MessageOf(apiError))

timelineNoCredentials(generated) ==
  timelineMock(generated, "note", MissingCredentialsNote)

(* ------------------------------ actions -------------------------------- *)
Init ==
  /\ env \in Environments
  /\ globalAgent = NullAgent
  /\ postCounter = 0
  /\ inv = [p \in Procs |-> Idle]

\* A returned response is handed to the caller before anything else happens:
\* an invocation that has returned takes no further part in the program, so
\* this order loses no behaviour of the session or of the other invocations.
Quiet == \A q \in Procs : inv[q].pc # "done"

CanStart(p) == Quiet /\ inv[p].pc = "idle"

\* Faulty variant: the check of globalAgent (bluesky.ts 27-29) is missing, so
\* every call creates an agent and logs in.
CallInitializeBlueskyAuthAlwaysLogin(p, tool, args, config) ==
  inv' = [inv EXCEPT ![p] =
            Slot("awaitLogin", tool, args, config, NewAgent(p, config),
                 "", None, NoResult)]

\* The synchronous part of `await initializeBlueskyAuth(config)`: a stored
\* globalAgent is returned at once; otherwise a new AtpAgent is created and its
\* login dispatched.  In a handler's slot, agent is the value the await will
\* hand back; the handlers make no use of it.
CallInitializeBlueskyAuth(p, tool, args, config) ==
  IF globalAgent # NullAgent
  THEN inv' = [inv EXCEPT ![p] =
                 IF tool = InitCall
                 THEN ReturnAtOnce(tool, args, config, None, Returned(globalAgent))
                 ELSE Slot("initReturned", tool, args, config, globalAgent, "", None, NoResult)]
  ELSE inv' = [inv EXCEPT ![p] =
                 Slot("awaitLogin", tool, args, config, NewAgent(p, config),
                      "", None, NoResult)]

\* the clock readings and random draws of one run of a mock generator
MockRuns ==
  { [now |-> 9000000, created |-> 9000000,
     random |-> [replyCount |-> 0, repostCount |-> 0, likeCount |-> 0]],
    [now |-> 9000000, created |-> 9000001,
     random |-> [replyCount |-> 4, repostCount |-> 9, likeCount |-> 19]] }

\* the parameters the schema accepts, as it hands them on
ParsedTimelineParams ==
  { TimelineUriSchemaParse(q.limit, q.cursor).value :
      q \in { r \in TimelineParams : ~TimelineUriSchemaParse(r.limit, r.cursor).threw } }

\* what generateMockTimeline may return or throw for each of them
MockTimelineTable ==
  [parsedParams \in ParsedTimelineParams |->
     { generateMockTimeline(parsedParams.limit, parsedParams.cursor,
                            [i \in 0..(parsedParams.limit - 1) |-> run.now],
                            [i \in 0..(parsedParams.limit - 1) |-> run.random],
                            run.created) : run \in MockRuns }]

MockTimelineRuns(parsedParams) == MockTimelineTable[parsedParams]

MockPostRuns(args, counter) ==
  { generateMockPostResponse(args.text, args.media, run.now, counter, run.created) :
      run \in MockRuns }

\* The catch block of the handler in slot p receives e (thrown by
\* initializeBlueskyAuth, getAuthenticatedAgent or the live request).
Catch(p, e) ==
  LET tool == inv[p].tool
      args == inv[p].args
  IN CASE tool = PostTool ->
            /\ postCounter' = postCounter + 1
            /\ \E mockResponse \in MockPostRuns(args, postCounter + 1) :
                 inv' = Return(p, postCatch(args, e, mockResponse), Some(e))
       [] tool = PostToolNoMock ->
            /\ inv' = Return(p, postCatchNoMock(args, e), Some(e))
            /\ UNCHANGED postCounter
       [] tool = DeleteTool ->
            /\ inv' = Return(p, deletePostCatch(args, e), Some(e))
            /\ UNCHANGED postCounter
       [] tool = TimelineResource ->
            /\ \E generated \in MockTimelineRuns(args.parsedParams) :
                 inv' = Return(p, timelineCatch(generated, e), Some(e))
            /\ UNCHANGED postCounter

\* what the live API may answer
RemotePosts ==
  { [uri |-> "at://did:plc:alice123/app.bsky.feed.post/3kxyz", cid |-> "bafyreiabc"] }
RemoteFeeds ==
  { [feed |-> <<>>, cursor |-> UNDEFINED],
    [feed |-> << [post |->
                   [uri |-> "at://did:plc:alice123/app.bsky.feed.post/3kxyz",
                    cid |-> "bafyreiabc",
                    author |-> [did |-> "did:plc:alice123", handle |-> "alice.test",
                                displayName |-> UNDEFINED],
                    record |-> [text |-> "hi"],
                    replyCount |-> None, repostCount |-> Some(2), likeCount |-> None,
                    indexedAt |-> "2025-01-01T00:00:00.000Z"]] >>,
     cursor |-> "2025-01-01T00:00:00.000Z"] }

\* the bluesky_post invocations that may still call generateMockPostResponse
PendingPosts ==
  Cardinality({ q \in Procs : inv[q].tool = PostTool /\ inv[q].pc \notin {"done", "held"} })

\* bluesky_post, the revision with the mock fallback, up to its first await
InvokePost(p) ==
  /\ CanStart(p)
  /\ postCounter + PendingPosts < MaxPosts
  /\ \E args \in PostArgs :
       LET authConfig == getAuthConfigFromEnv(env)
       IN /\ PostSchemaError(args.text) = ""
          /\ IF authConfig # NullConfig
             THEN /\ CallInitializeBlueskyAuth(p, PostTool, args, authConfig)
                  /\ UNCHANGED postCounter
             ELSE /\ postCounter' = postCounter + 1
                  /\ \E mockResponse \in MockPostRuns(args, postCounter + 1) :
                       inv' = [inv EXCEPT ![p] =
                                 ReturnAtOnce(PostTool, args, authConfig, None,
                                              postNoCredentials(mockResponse))]
  /\ UNCHANGED <<env, globalAgent>>

\* bluesky_post, the revision without the mock fallback, up to its first await
InvokePostNoMock(p) ==
  /\ CanStart(p)
  /\ \E args \in PostArgs :
       LET authConfig == getAuthConfigFromEnv(env)
       IN /\ PostSchemaError(args.text) = ""
          /\ IF authConfig # NullConfig
             THEN CallInitializeBlueskyAuth(p, PostToolNoMock, args, authConfig)
             ELSE inv' = [inv EXCEPT ![p] =
                            ReturnAtOnce(PostToolNoMock, args, authConfig, None,
                                         postNoCredentialsNoMock)]
  /\ UNCHANGED <<env, globalAgent, postCounter>>

\* bluesky_delete_post up to its first await; the server rejects an argument
\* that fails the inputSchema without calling the handler
InvokeDeletePost(p) ==
  /\ CanStart(p)
  /\ \E postUri \in PostUris :
       LET args == [postUri |-> postUri]
           authConfig == getAuthConfigFromEnv(env)
       IN IF DeletePostSchemaError(postUri) # ""
          THEN inv' = [inv EXCEPT ![p] =
                         ReturnAtOnce(DeleteTool, args, NullConfig, None,
                                      ToolResult(TRUE, DeletePostSchemaError(postUri)))]
          ELSE IF authConfig # NullConfig
          THEN CallInitializeBlueskyAuth(p, DeleteTool, args, authConfig)
          ELSE inv' = [inv EXCEPT ![p] =
                         ReturnAtOnce(DeleteTool, args, authConfig, None,
                                      deletePostNoCredentials)]
  /\ UNCHANGED <<env, globalAgent, postCounter>>

\* the arguments of a timeline invocation with what the schema made of them
TimelineArgs(params, parsed) ==
  [limit |-> params.limit, cursor |-> params.cursor,
   parsedParams |-> IF parsed.threw THEN NoArgs ELSE parsed.value]

\* bluesky-timeline, the revision that calls the API, up to its first await
InvokeTimeline(p) ==
  /\ CanStart(p)
  /\ \E params \in TimelineParams :
       LET parsed == TimelineUriSchemaParse(params.limit, params.cursor)
           args == TimelineArgs(params, parsed)
           authConfig == getAuthConfigFromEnv(env)
       IN IF parsed.threw
          THEN inv' = [inv EXCEPT ![p] =
                         ReturnAtOnce(TimelineResource, args, NullConfig,
                                      Some(parsed.error), timelineError(parsed.error))]
          ELSE IF authConfig # NullConfig
          THEN CallInitializeBlueskyAuth(p, TimelineResource, args, authConfig)
          ELSE \E generated \in MockTimelineRuns(parsed.value) :
                 inv' = [inv EXCEPT ![p] =
                           ReturnAtOnce(TimelineResource, args, authConfig,
                                        IF generated.threw THEN Some(generated.error)
                                        ELSE None,
                                        timelineNoCredentials(generated))]
  /\ UNCHANGED <<env, globalAgent, postCounter>>

\* bluesky-timeline, the revision that only generates mock pages: no await
InvokeTimelineMock(p) ==
  /\ CanStart(p)
  /\ \E params \in TimelineParams :
       LET parsed == TimelineUriSchemaParse(params.limit, params.cursor)
           args == TimelineArgs(params, parsed)
       IN IF parsed.threw
          THEN inv' = [inv EXCEPT ![p] =
                         ReturnAtOnce(TimelineResourceMock, args, NullConfig,
                                      Some(parsed.error), timelineError(parsed.error))]
          ELSE \E generated \in MockTimelineRuns(parsed.value) :
                 inv' = [inv EXCEPT ![p] =
                   ReturnAtOnce(TimelineResourceMock, args, NullConfig,
                                IF generated.threw THEN Some(generated.error) ELSE None,
                                IF generated.threw THEN timelineError(generated.error)
                                ELSE ResourceResult(generated.value))]
  /\ UNCHANGED <<env, globalAgent, postCounter>>

\* initializeBlueskyAuth(config) called directly with any config
InvokeInit(p) ==
  /\ CanStart(p)
  /\ \E config \in Configs : CallInitializeBlueskyAuth(p, InitCall, NoArgs, config)
  /\ UNCHANGED <<env, globalAgent, postCounter>>

\* Faulty variant: a login that resolves after another one has stored its agent
\* leaves that agent stored.
LoginResolveKeepsFirst(p) ==
  /\ Quiet
  /\ inv[p].pc = "awaitLogin"
  /\ LET agent == [inv[p].agent EXCEPT !.session = SessionOf(inv[p].authConfig.identifier)]
     IN /\ globalAgent' = IF globalAgent # NullAgent THEN globalAgent ELSE agent
        /\ inv' = IF inv[p].tool = InitCall
                  THEN Return(p, Returned(agent), None)
                  ELSE [inv EXCEPT ![p].pc = "initReturned", ![p].agent = agent]
  /\ UNCHANGED <<env, postCounter>>

\* agent.login resolves inside initializeBlueskyAuth: the agent now holds a
\* session, is stored in globalAgent and returned
LoginResolve(p) ==
  /\ Quiet
  /\ inv[p].pc = "awaitLogin"
  /\ LET agent == [inv[p].agent EXCEPT !.session = SessionOf(inv[p].authConfig.identifier)]
     IN /\ globalAgent' = agent
        /\ inv' = IF inv[p].tool = InitCall
                  THEN Return(p, Returned(agent), None)
                  ELSE [inv EXCEPT ![p].pc = "initReturned", ![p].agent = agent]
  /\ UNCHANGED <<env, postCounter>>

\* Faulty variant: globalAgent is assigned before the login is awaited, so an
\* agent whose login rejected stays stored.
LoginRejectStoresAgent(p) ==
  /\ Quiet
  /\ inv[p].pc = "awaitLogin"
  /\ globalAgent' = inv[p].agent
  /\ \E e \in LoginThrows :
       IF inv[p].tool = InitCall
       THEN /\ inv' = Return(p, Threw(AuthError(e)), Some(e))
            /\ UNCHANGED postCounter
       ELSE Catch(p, AuthError(e))
  /\ UNCHANGED env

\* agent.login rejects: initializeBlueskyAuth throws the classified error, which
\* the caller's catch block receives
LoginReject(p) ==
  /\ Quiet
  /\ inv[p].pc = "awaitLogin"
  /\ \E e \in LoginThrows :
       IF inv[p].tool = InitCall
       THEN /\ inv' = Return(p, Threw(AuthError(e)), Some(e))
            /\ UNCHANGED postCounter
       ELSE Catch(p, AuthError(e))
  /\ UNCHANGED <<env, globalAgent>>

\* Faulty variant: the test of globalAgent is missing, so null is returned.
getAuthenticatedAgentReturnsNull == Returned(globalAgent)

\* getAuthenticatedAgent(): the stored agent, or the error it throws
getAuthenticatedAgent ==
  IF globalAgent = NullAgent THEN Threw(NotAuthenticated) ELSE Returned(globalAgent)

\* Faulty variant: a handler that finds no stored agent logs in once more.
ResumeLogsInAgain(p) ==
  /\ Quiet
  /\ inv[p].pc = "initReturned"
  /\ inv' = IF globalAgent = NullAgent
            THEN [inv EXCEPT ![p].pc = "awaitLogin",
                             ![p].agent = NewAgent(p, inv[p].authConfig)]
            ELSE [inv EXCEPT ![p].pc = "awaitApi", ![p].agent = globalAgent]
  /\ UNCHANGED <<env, globalAgent, postCounter>>

\* Faulty variant: the error getAuthenticatedAgent throws leaves the handler.
ResumePropagates(p) ==
  /\ Quiet
  /\ inv[p].pc = "initReturned"
  /\ LET agent == getAuthenticatedAgent
     IN inv' = IF agent.threw
               THEN Return(p, agent, Some(agent.error))
               ELSE [inv EXCEPT ![p].pc = "awaitApi", ![p].agent = agent.value]
  /\ UNCHANGED <<env, globalAgent, postCounter>>

\* The handler continues after `await initializeBlueskyAuth(...)`: it calls
\* getAuthenticatedAgent(), which throws when globalAgent is null by now, and
\* dispatches its live request on the agent it got, which it holds in its
\* local `agent` while the request is in flight.
Resume(p) ==
  /\ Quiet
  /\ inv[p].pc = "initReturned"
  /\ LET agent == getAuthenticatedAgent
     IN IF agent.threw
        THEN Catch(p, agent.error)
        ELSE /\ inv' = [inv EXCEPT ![p].pc = "awaitApi", ![p].agent = agent.value]
             /\ UNCHANGED postCounter
  /\ UNCHANGED <<env, globalAgent>>

\* the live request (agent.post, agent.deletePost, agent.getAuthorFeed) resolves
ApiResolve(p) ==
  /\ Quiet
  /\ inv[p].pc = "awaitApi"
  /\ LET tool == inv[p].tool
         args == inv[p].args
     IN \E now \in Times :
          CASE tool \in {PostTool, PostToolNoMock} ->
                 \E response \in RemotePosts :
                   inv' = Return(p, postSuccess(args, response, now), None)
            [] tool = DeleteTool ->
                 inv' = Return(p, deletePostSuccess(args, now), None)
            [] tool = TimelineResource ->
                 \E data \in RemoteFeeds :
                   inv' = Return(p, timelineSuccess(args.parsedParams, inv[p].authConfig,
                                                    data, now), None)
  /\ UNCHANGED <<env, globalAgent, postCounter>>

\* Faulty variant: a rejected live request also drops the session.
ApiRejectClearsSession(p) ==
  /\ Quiet
  /\ inv[p].pc = "awaitApi"
  /\ \E e \in ApiThrows : Catch(p, e)
  /\ globalAgent' = NullAgent
  /\ UNCHANGED env

\* Faulty variant: a request that failed on the stored agent drops that agent.
ApiRejectDropsOwnAgent(p) ==
  /\ Quiet
  /\ inv[p].pc = "awaitApi"
  /\ \E e \in ApiThrows : Catch(p, e)
  /\ globalAgent' = IF globalAgent = inv[p].agent THEN NullAgent ELSE globalAgent
  /\ UNCHANGED env

\* the live request rejects
ApiReject(p) ==
  /\ Quiet
  /\ inv[p].pc = "awaitApi"
  /\ \E e \in ApiThrows : Catch(p, e)
  /\ UNCHANGED <<env, globalAgent>>

\* the caller receives the response of a returned invocation
Deliver(p) ==
  /\ inv[p].pc = "done"
  /\ inv' = [inv EXCEPT ![p] = Idle]
  /\ UNCHANGED <<env, globalAgent, postCounter>>

\* Faulty variant: the agent is kept while an invocation is in flight.
clearAuthenticationWhenIdle ==
  /\ Quiet
  /\ globalAgent' = IF \A p \in Procs : inv[p].pc = "idle"
                    THEN NullAgent ELSE globalAgent
  /\ UNCHANGED <<env, postCounter, inv>>

clearAuthentication ==
  /\ Quiet
  /\ globalAgent' = NullAgent
  /\ UNCHANGED <<env, postCounter, inv>>

\* clearAuthentication, remembering in the slots whose login is in flight that
\* it ran while they were waiting (via is otherwise unset until a slot returns)
clearAuthenticationSeen ==
  /\ Quiet
  /\ globalAgent' = NullAgent
  /\ inv' = [p \in Procs |->
               IF inv[p].pc = "awaitLogin"
               THEN [inv[p] EXCEPT !.via = "cleared"]
               ELSE inv[p]]
  /\ UNCHANGED <<env, postCounter>>

\* the process environment is changed; the tests set and delete the variables
\* between the calls they await
SetEnv ==
  /\ \A p \in Procs : inv[p].pc = "idle"
  /\ env' \in Environments
  /\ env' # env
  /\ UNCHANGED <<globalAgent, postCounter, inv>>

\* The process environment is changed while an invocation waits for a login or
\* a live request.  A handler reads the environment once, when it starts, so
\* the change is seen by the invocations that start after it.
SetEnvInFlight ==
  /\ Quiet
  /\ \E p \in Procs : inv[p].pc # "idle"
  /\ env' \in Environments
  /\ env' # env
  /\ UNCHANGED <<globalAgent, postCounter, inv>>

Next ==
  \/ \E p \in Procs : InvokePost(p)
  \/ \E p \in Procs : InvokePostNoMock(p)
  \/ \E p \in Procs : InvokeDeletePost(p)
  \/ \E p \in Procs : InvokeTimeline(p)
  \/ \E p \in Procs : InvokeTimelineMock(p)
  \/ \E p \in Procs : InvokeInit(p)
  \/ \E p \in Procs : LoginResolve(p)
  \/ \E p \in Procs : LoginReject(p)
  \/ \E p \in Procs : Resume(p)
  \/ \E p \in Procs : ApiResolve(p)
  \/ \E p \in Procs : ApiReject(p)
  \/ \E p \in Procs : Deliver(p)
  \/ clearAuthentication
  \/ SetEnv

Spec == Init /\ [][Next]_vars

\* The steps every invocation takes after its first await, and what happens
\* around the invocations.
Continue ==
  \/ \E p \in Procs : LoginResolve(p)
  \/ \E p \in Procs : LoginReject(p)
  \/ \E p \in Procs : Resume(p)
  \/ \E p \in Procs : ApiResolve(p)
  \/ \E p \in Procs : ApiReject(p)
  \/ \E p \in Procs : Deliver(p)
  \/ clearAuthentication
  \/ SetEnv

\* The server used for posting only: both revisions of bluesky_post.
NextPost ==
  \/ \E p \in Procs : InvokePost(p)
  \/ \E p \in Procs : InvokePostNoMock(p)
  \/ Continue

SpecPost == Init /\ [][NextPost]_vars

\* The server used for deleting only, next to direct calls of the auth module.
NextDelete ==
  \/ \E p \in Procs : InvokeDeletePost(p)
  \/ \E p \in Procs : InvokeInit(p)
  \/ Continue

SpecDelete == Init /\ [][NextDelete]_vars

\* One client that calls the three handlers that use the API, bluesky_post,
\* bluesky_delete_post and the bluesky-timeline resource, one after the other,
\* while the auth module is called directly beside it.
Client == 1

NextServe ==
  \/ InvokePost(Client)
  \/ InvokeDeletePost(Client)
  \/ InvokeTimeline(Client)
  \/ \E p \in Procs \ {Client} : InvokeInit(p)
  \/ Continue

SpecServe == Init /\ [][NextServe]_vars

\* Every dispatched request settles (agent.login and the live request resolve
\* or reject), the event loop runs every continuation that is ready, and every
\* returned response reaches the caller.  The first three are strong because
\* Quiet holds them back while some other response is being handed over.
Settles ==
  \A p \in Procs :
    /\ SF_vars(LoginResolve(p) \/ LoginReject(p))
    /\ SF_vars(Resume(p))
    /\ SF_vars(ApiResolve(p) \/ ApiReject(p))
    /\ WF_vars(Deliver(p))

FairServe == SpecServe /\ Settles

\* The server used for deleting, with every clearAuthentication remembered by
\* the logins it overtakes.
NextClear ==
  \/ \E p \in Procs : InvokeDeletePost(p)
  \/ \E p \in Procs : InvokeInit(p)
  \/ \E p \in Procs : LoginResolve(p)
  \/ \E p \in Procs : LoginReject(p)
  \/ \E p \in Procs : Resume(p)
  \/ \E p \in Procs : ApiResolve(p)
  \/ \E p \in Procs : ApiReject(p)
  \/ \E p \in Procs : Deliver(p)
  \/ clearAuthenticationSeen
  \/ SetEnv

SpecClear == Init /\ [][NextClear]_vars

\* The server used for deleting, with the environment changing at any time, so
\* that invocations started under different credentials overlap.
NextOverlap ==
  \/ \E p \in Procs : InvokeDeletePost(p)
  \/ \E p \in Procs : InvokeInit(p)
  \/ Continue
  \/ SetEnvInFlight

SpecOverlap == Init /\ [][NextOverlap]_vars

\* every way the three variables can be unset, empty or set when the process
\* starts
StartEnvironments ==
  { Env(identifier, password, service) :
      identifier \in {UNDEFINED, "", "alice.test"},
      password \in {UNDEFINED, "", "pw-a"},
      service \in {UNDEFINED, "", "https://pds.example"} }

InitAnyEnv ==
  /\ env \in StartEnvironments
  /\ globalAgent = NullAgent
  /\ postCounter = 0
  /\ inv = [p \in Procs |-> Idle]

\* The server used for deleting, started in any environment.
SpecAnyEnv == InitAnyEnv /\ [][NextDelete]_vars

\* The server used for reading the timeline only: both revisions of the resource.
NextTimeline ==
  \/ \E p \in Procs : InvokeTimeline(p)
  \/ \E p \in Procs : InvokeTimelineMock(p)
  \/ Continue

SpecTimeline == Init /\ [][NextTimeline]_vars

(* ------------- the generators called directly, as the unit tests do ------------- *)
MockPostCall == "generateMockPostResponse"

\* arguments of a direct call: media absent, empty, one URL, two URLs
MockPostArgs ==
  { [text |-> text, media |-> media] :
      text \in {"hello", "bye"},
      media \in { None, Some(<<>>), Some(<<"https://example.com/a.png">>),
                  Some(<<"https://example.com/b.png", "https://example.com/a.png">>) } }

\* const response = generateMockPostResponse(text, media): the caller keeps the
\* record in a local
CallGenerateMockPostResponse(p) ==
  /\ CanStart(p)
  /\ postCounter + PendingPosts < MaxPosts
  /\ postCounter' = postCounter + 1
  /\ \E args \in MockPostArgs, run \in MockRuns :
       inv' = [inv EXCEPT ![p] =
                 Slot("held", MockPostCall, args, NullConfig, NullAgent, "start", None,
                      Returned(generateMockPostResponse(args.text, args.media, run.now,
                                                        postCounter + 1, run.created)))]
  /\ UNCHANGED <<env, globalAgent>>

\* the client keeps the response of a returned handler
Hold(p) ==
  /\ inv[p].pc = "done"
  /\ inv' = [inv EXCEPT ![p].pc = "held"]
  /\ UNCHANGED <<env, globalAgent, postCounter>>

\* a kept record or response goes out of scope
Release(p) ==
  /\ inv[p].pc = "held"
  /\ inv' = [inv EXCEPT ![p] = Idle]
  /\ UNCHANGED <<env, globalAgent, postCounter>>

\* generateMockPostResponse called directly and by the fallbacks of
\* bluesky_post, with the results kept side by side.
NextMockPost ==
  \/ \E p \in Procs : CallGenerateMockPostResponse(p)
  \/ \E p \in Procs : InvokePost(p)
  \/ \E p \in Procs : Hold(p)
  \/ \E p \in Procs : Release(p)
  \/ Continue

SpecMockPost == Init /\ [][NextMockPost]_vars

MockTimelineCall == "generateMockTimeline"

\* arguments of a direct call
MockLimits == {0, 2, 3}
MockCursors == {UNDEFINED, "0", "-5", "abc", "9999999999999"}
\* the largest cursor of a held page that is passed on to a further call
MaxStart == 3

\* the instants Date.now() may return during the direct calls: two
\* neighbouring milliseconds, and the same two a minute later
MockInstants == Times \cup { t + 60000 : t \in Times }

\* the pages the caller holds
HeldPages ==
  { q \in Procs : /\ inv[q].tool = MockTimelineCall /\ inv[q].pc = "held"
                  /\ ~inv[q].result.threw }

\* the instant the latest of the held pages was finished
RECURSIVE Latest(_)
Latest(pages) ==
  IF pages = {} THEN 0
  ELSE LET q == CHOOSE r \in pages : TRUE
           t == FromISOString(inv[q].result.value.metadata.generated_at)
           rest == Latest(pages \ {q})
       IN IF t > rest THEN t ELSE rest

\* the cursors of the held pages, as far as they are passed on
NextCursors ==
  { c \in { inv[q].result.value.cursor : q \in HeldPages } :
      c # UNDEFINED /\ ParseInt(c)[1] <= MaxStart }

\* the direct calls are made without credentials in the environment
InitMock ==
  /\ env = Env(UNDEFINED, UNDEFINED, UNDEFINED)
  /\ globalAgent = NullAgent
  /\ postCounter = 0
  /\ inv = [p \in Procs |-> Idle]

\* const timeline = generateMockTimeline(limit, cursor), the cursor being any
\* string or the cursor of a page the caller holds.  The call begins at
\* `start`, not before the held pages were finished; its loop reads the clock
\* as `start` for the first entry and as `later`, the same or the next
\* millisecond, from then on.
CallGenerateMockTimeline(p) ==
  /\ CanStart(p)
  /\ \E limit \in MockLimits,
        cursor \in MockCursors \cup NextCursors,
        start \in MockInstants, later \in MockInstants, run \in MockRuns :
       /\ start >= Latest(HeldPages)
       /\ later \in {start, start + 1}
       /\ inv' = [inv EXCEPT ![p] =
                    Slot("held", MockTimelineCall, [limit |-> limit, cursor |-> cursor],
                         NullConfig, NullAgent, "start", None,
                         generateMockTimeline(
                           limit, cursor,
                           [i \in 0..(limit - 1) |-> IF i = 0 THEN start ELSE later],
                           [i \in 0..(limit - 1) |-> run.random],
                           later))]
  /\ UNCHANGED <<env, globalAgent, postCounter>>

\* generateMockTimeline called directly, with the pages kept side by side.
NextMockTimeline ==
  \/ \E p \in Procs : CallGenerateMockTimeline(p)
  \/ \E p \in Procs : Release(p)

SpecMockTimeline == InitMock /\ [][NextMockTimeline]_vars

(* ----------------------------- properties ----------------------------- *)
\* the invocations that have returned, and what can be read off a response
Done(p) == inv[p].pc = "done"
PostTools == {PostTool, PostToolNoMock}
CredentialsPresent == getAuthConfigFromEnv(env) # NullConfig

\* a post response that comes from the synthetic generator: its URI is a mock one
SyntheticPost(result) ==
  Includes(result.text, "Post URI: at://did:plc:mockuser123/app.bsky.feed.post/mock_post_")
EchoesText(result, text) == Includes(result.text, "\nText: \"" \o text \o "\"")

\* the step in which slot p calls initializeBlueskyAuth
CallsInitializeBlueskyAuth(p) ==
  /\ inv[p].pc = "idle"
  /\ \/ inv'[p].pc \in {"awaitLogin", "initReturned"}
     \/ inv'[p].tool = InitCall

\* the step in which the login of slot p resolves / rejects
LoginSucceeds(p) ==
  /\ inv[p].pc = "awaitLogin"
  /\ inv'[p].pc \in {"initReturned", "done"}
  /\ inv'[p].caught = None
LoginFails(p) ==
  /\ inv[p].pc = "awaitLogin"
  /\ inv'[p].pc = "done"
  /\ inv'[p].caught # None

\* C1: whenever a session is stored, a call of initializeBlueskyAuth(config)
\* hands back that stored agent, dispatches no login and leaves globalAgent as
\* it is, whatever config holds.
C1_StoredSessionIsReturned ==
  [][\A p \in Procs :
       (globalAgent # NullAgent /\ CallsInitializeBlueskyAuth(p))
         => /\ globalAgent' = globalAgent
            /\ inv'[p].pc # "awaitLogin"
            /\ IF inv'[p].tool = InitCall
               THEN Done(p)' /\ inv'[p].result = Returned(globalAgent)
               ELSE inv'[p].pc = "initReturned" /\ inv'[p].agent = globalAgent]_vars

\* a direct call whose config names another account than the stored session's
\* has returned the stored agent without a login
C1_Witness ==
  \E p \in Procs :
    /\ Done(p) /\ inv[p].tool = InitCall /\ inv[p].via = "start"
    /\ inv[p].result = Returned(globalAgent)
    /\ globalAgent.session # SessionOf(inv[p].authConfig.identifier)

\* C2: with the credentials absent from the environment, bluesky_post with a
\* valid text returns a non-error synthetic response that carries the text, and
\* returns before any login or live post is dispatched.  (Stated of every
\* revision of the tool; the revision without the fallback violates it.)
C2_NoCredentialsGivesSyntheticPost ==
  \A p \in Procs :
    (Done(p) /\ inv[p].tool \in PostTools /\ ~CredentialsPresent)
      => /\ ~inv[p].result.isError
         /\ SyntheticPost(inv[p].result)
         /\ EchoesText(inv[p].result, inv[p].args.text)
         /\ inv[p].via = "start"

\* C3: with the credentials present, a bluesky_post invocation whose login or
\* live post failed returns a non-error synthetic response that carries the
\* text and the message of the error.  (Stated of every revision of the tool;
\* the revision without the fallback violates it.)
C3_FailureGivesSyntheticPost ==
  \A p \in Procs :
    (Done(p) /\ inv[p].tool \in PostTools /\ inv[p].authConfig # NullConfig
       /\ inv[p].caught # None)
      => /\ ~inv[p].result.isError
         /\ SyntheticPost(inv[p].result)
         /\ EchoesText(inv[p].result, inv[p].args.text)
         /\ Includes(inv[p].result.text, MessageOf(inv[p].caught[1]))

\* C4: a bluesky_delete_post invocation (of an argument its schema accepts)
\* reports success only when it returns from its own live delete without
\* having caught an error; with the credentials absent it returns, before any
\* login or delete is dispatched, an error that names the missing credentials.
C4_DeleteSucceedsOnlyLive ==
  \A p \in Procs :
    (Done(p) /\ inv[p].tool = DeleteTool)
      => /\ ~inv[p].result.isError
              => inv[p].via = "awaitApi" /\ inv[p].caught = None
         /\ (~CredentialsPresent /\ DeletePostSchemaError(inv[p].args.postUri) = "")
              => /\ inv[p].result.isError
                 /\ Includes(inv[p].result.text, "Missing Bluesky credentials")
                 /\ inv[p].via = "start"

\* a live delete has completed and is reported as a success
C4_Witness ==
  \E p \in Procs :
    /\ Done(p) /\ inv[p].tool = DeleteTool
    /\ ~inv[p].result.isError /\ inv[p].via = "awaitApi"

\* C5: with the credentials present and a limit in 1..100, a bluesky-timeline
\* invocation whose login or live feed request failed returns a page of
\* exactly `limit` synthetic entries with metadata.source = 'mock' and the
\* message of the error in metadata.fallback_reason.
C5_FailureGivesMockPage ==
  \A p \in Procs :
    (Done(p) /\ inv[p].tool = TimelineResource /\ inv[p].authConfig # NullConfig
       /\ inv[p].via # "start" /\ inv[p].caught # None)
      => LET page == inv[p].result.contents
         IN /\ "feed" \in DOMAIN page
            /\ Len(page.feed) = inv[p].args.parsedParams.limit
            /\ page.total = inv[p].args.parsedParams.limit
            /\ page.metadata.source = "mock"
            /\ "fallback_reason" \in DOMAIN page.metadata
            /\ Includes(page.metadata.fallback_reason, MessageOf(inv[p].caught[1]))

\* C6: bluesky_delete_post with an empty postUri, or one that does not start
\* with 'at://', returns a validation error in its first step, before a login
\* or a delete is dispatched, whatever the credentials and the stored session.
C6_BadUriRejectedAtOnce ==
  \A p \in Procs :
    (Done(p) /\ inv[p].tool = DeleteTool
       /\ (inv[p].args.postUri = "" \/ ~StartsWith(inv[p].args.postUri, "at://")))
      => /\ inv[p].result.isError
         /\ inv[p].via = "start"
         /\ \/ inv[p].result.text = "Post URI cannot be empty"
            \/ StartsWith(inv[p].result.text, "Post URI must be a valid AT-URI format")

\* a URI without the scheme is rejected while credentials and a session exist
C6_Witness ==
  \E p \in Procs :
    /\ Done(p) /\ inv[p].tool = DeleteTool
    /\ inv[p].args.postUri # "" /\ ~StartsWith(inv[p].args.postUri, "at://")
    /\ inv[p].result.isError /\ inv[p].via = "start"
    /\ CredentialsPresent /\ globalAgent # NullAgent

\* C7: globalAgent goes from null to an agent only in a step in which a login
\* awaited inside initializeBlueskyAuth resolves, and from an agent to null only
\* in a clearAuthentication step (no invocation moves, the environment stays);
\* so no handler step, rejected login or rejected live request does either.
C7_SessionTransitions ==
  [][/\ (globalAgent = NullAgent /\ globalAgent' # NullAgent)
          => \E p \in Procs : LoginSucceeds(p) /\ globalAgent'.id = inv[p].agent.id
     /\ (globalAgent # NullAgent /\ globalAgent' = NullAgent)
          => UNCHANGED <<env, postCounter, inv>>]_vars

\* a handler has caught the rejection of its live request and the session that
\* the request went out on is still stored
C7_Witness ==
  \E p \in Procs :
    /\ Done(p) /\ inv[p].tool \in PostTools \cup {DeleteTool, TimelineResource}
    /\ inv[p].via = "awaitApi" /\ inv[p].caught # None
    /\ globalAgent # NullAgent

\* C8: a stored agent always holds the session that its login produced: no
\* agent is stored before its login has resolved.
C8_StoredSessionLoggedIn ==
  globalAgent # NullAgent
    => \E config \in Configs \cup {getAuthConfigFromEnv(e) : e \in Environments} :
         /\ config # NullConfig
         /\ globalAgent.session = SessionOf(config.identifier)

\* an agent is stored while another login is still awaited
C8_Witness ==
  /\ globalAgent # NullAgent
  /\ \E p \in Procs : inv[p].pc = "awaitLogin"

\* the message of the class of a login error, by the first test that matches
C9_ClassMessage(e) ==
  LET has(sub) == e.message # UNDEFINED /\ Includes(e.message, sub)
  IN CASE has("Invalid identifier or password") ->
            "Invalid Bluesky credentials. Please check your identifier and password."
       [] ~has("Invalid identifier or password") /\ has("Network Error") ->
            "Network error connecting to Bluesky. Please check your internet connection."
       [] ~has("Invalid identifier or password") /\ ~has("Network Error")
            /\ has("Rate limit") ->
            "Rate limited by Bluesky. Please try again later."
       [] OTHER ->
            "Authentication failed: "
              \o (IF e.message = UNDEFINED THEN "Unknown error" ELSE e.message)

\* C9 (as amended): when the login inside initializeBlueskyAuth rejects,
\* globalAgent is left as it is (null, unless another invocation's login has
\* stored an agent meanwhile) and the call throws the error of the first class
\* that matches the login error's message, each class with its own message.
C9_LoginFailureClassified ==
  [][\A p \in Procs :
       (LoginFails(p) /\ inv[p].tool = InitCall)
         => /\ globalAgent' = globalAgent
            /\ inv'[p].result = Threw(Err(C9_ClassMessage(inv'[p].caught[1])))]_vars

\* C9 (as stated): ... the stored session is absent after the failed login ...
C9_AsStated ==
  [][\A p \in Procs :
       (LoginFails(p) /\ inv[p].tool = InitCall)
         => /\ globalAgent' = NullAgent
            /\ inv'[p].result = Threw(Err(C9_ClassMessage(inv'[p].caught[1])))]_vars

\* a login error that matches two classes has been thrown as the first of them
C9_Witness ==
  \E p \in Procs :
    /\ Done(p) /\ inv[p].tool = InitCall /\ inv[p].via = "awaitLogin"
    /\ inv[p].caught = Some(Err("Network Error: Rate limit exceeded"))
    /\ inv[p].result
         = Threw(Err("Network error connecting to Bluesky. Please check your internet connection."))

\* C10: a login that resolves stores its own agent in globalAgent whether or
\* not another login has stored one before it (the last to resolve wins); the
\* step reports no error to its own invocation and moves no other invocation.
C10_LastLoginWins ==
  [][\A p \in Procs :
       LoginSucceeds(p)
         => /\ globalAgent'.id = inv[p].agent.id
            /\ globalAgent'.session = SessionOf(inv[p].authConfig.identifier)
            /\ inv'[p].pc = "done" => ~inv'[p].result.threw
            /\ \A q \in Procs \ {p} : inv'[q] = inv[q]]_vars

\* two delete invocations both dispatched a login, both logins resolved, and
\* both handlers are about to go on; the agent of the second slot is stored,
\* that of the first is not
C10_Witness ==
  /\ \A p \in Procs :
       /\ inv[p].tool = DeleteTool /\ inv[p].pc = "initReturned"
       /\ inv[p].agent # NullAgent /\ inv[p].agent.id = p
  /\ globalAgent = inv[2].agent
  /\ globalAgent # inv[1].agent

\* the sessions the program holds: that of the stored agent and those of the
\* agents on which handlers have a live request in flight
SessionsHeld ==
  { a.session :
      a \in { b \in {globalAgent} \cup { inv[p].agent : p \in { q \in Procs : inv[q].pc = "awaitApi" } } :
                b # NullAgent } }

\* C11: at no time does the program hold two distinct sessions, logged in
\* under two different credential sets: the stored agent and the agents that
\* handlers are using all carry the same session.
C11_OneSessionAtATime == Cardinality(SessionsHeld) <= 1

\* the classes of a failed delete, read off the response and off the message
ReportsNotFound(result) ==
  result.isError /\ StartsWith(result.text, "Error deleting post: Post not found.")
ReportsUnauthorized(result) ==
  result.isError
  /\ StartsWith(result.text, "Error deleting post: You are not authorized to delete this post.")
MatchesNotFound(m) ==
  \/ Includes(m, "not found") \/ Includes(m, "404")
  \/ Includes(m, "Could not find repo") \/ Includes(m, "Could not find record")
MatchesUnauthorized(m) == Includes(m, "unauthorized") \/ Includes(m, "forbidden")

\* C13: a bluesky_delete_post invocation whose attempt failed with message m
\* reports not-found when m matches a not-found pattern (also when it matches
\* an unauthorized pattern as well), else unauthorized when m matches
\* 'unauthorized' or 'forbidden', else the message m itself.
C13_DeleteFailureClassified ==
  \A p \in Procs :
    (Done(p) /\ inv[p].tool = DeleteTool /\ inv[p].caught # None)
      => LET m == MessageOf(inv[p].caught[1])
             result == inv[p].result
         IN /\ MatchesNotFound(m) => ReportsNotFound(result)
            /\ (~MatchesNotFound(m) /\ MatchesUnauthorized(m)) => ReportsUnauthorized(result)
            /\ (~MatchesNotFound(m) /\ ~MatchesUnauthorized(m))
                 => result = ToolResult(TRUE, "Error deleting post: " \o m
                                              \o "\n\nURI: " \o inv[p].args.postUri)

\* the live delete rejected with a message that matches both kinds of pattern
\* and the invocation reported not-found
C13_Witness ==
  \E p \in Procs :
    /\ Done(p) /\ inv[p].tool = DeleteTool /\ inv[p].via = "awaitApi"
    /\ inv[p].caught = Some(Err("forbidden: record not found"))
    /\ ReportsNotFound(inv[p].result)

TimelineTools == {TimelineResource, TimelineResourceMock}
\* the limit parameter is given and parses to no number or to one outside 1..100
LimitInvalid(limit) ==
  /\ limit # UNDEFINED /\ limit # ""
  /\ \/ ParseInt(limit) = None
     \/ ParseInt(limit)[1] < 1
     \/ ParseInt(limit)[1] > 100

\* C14: a bluesky-timeline read whose limit parses to no number or to a number
\* outside 1..100 returns, in its first step (no login, no feed request, no
\* mock page), an error payload 'Failed to get timeline: ...' without a feed,
\* whatever the credentials and the stored session; a read without limit
\* answers for limit 20.
C14_BadLimitRejectedAtOnce ==
  \A p \in Procs :
    (Done(p) /\ inv[p].tool \in TimelineTools)
      => LET page == inv[p].result.contents
         IN /\ LimitInvalid(inv[p].args.limit)
                 => /\ inv[p].via = "start"
                    /\ DOMAIN page = {"error"}
                    /\ StartsWith(page.error, "Failed to get timeline: ")
            /\ (inv[p].args.limit = UNDEFINED /\ "metadata" \in DOMAIN page)
                 => page.metadata.query_params.limit = 20

\* a limit above 100 is rejected while credentials and a session exist
C14_Witness ==
  \E p \in Procs :
    /\ Done(p) /\ inv[p].tool = TimelineResource
    /\ inv[p].args.limit = "101"
    /\ DOMAIN inv[p].result.contents = {"error"}
    /\ CredentialsPresent /\ globalAgent # NullAgent

LiveFeedSucceeded(p) ==
  /\ inv[p].tool = TimelineResource
  /\ inv[p].authConfig # NullConfig
  /\ inv[p].agent # NullAgent /\ inv[p].agent.session # UNDEFINED
  /\ inv[p].via = "awaitApi" /\ inv[p].caught = None

\* C16: a timeline response that is not an error is tagged 'real_api' exactly
\* when its invocation resolved credentials, obtained a session and its live
\* feed request succeeded; every other non-error response is tagged 'mock'.
C16_SourceTag ==
  \A p \in Procs :
    (/\ Done(p) /\ inv[p].tool \in TimelineTools
     /\ "metadata" \in DOMAIN inv[p].result.contents)
      => inv[p].result.contents.metadata.source
           = IF LiveFeedSucceeded(p) THEN "real_api" ELSE "mock"

\* a page of the live feed, tagged 'real_api'
C16_Witness ==
  \E p \in Procs :
    /\ Done(p) /\ LiveFeedSucceeded(p)
    /\ "metadata" \in DOMAIN inv[p].result.contents
    /\ inv[p].result.contents.metadata.source = "real_api"

\* a page served after the live request failed, tagged 'mock'
C16_FallbackReached ==
  \E p \in Procs :
    /\ Done(p) /\ inv[p].tool = TimelineResource
    /\ inv[p].via = "awaitApi" /\ inv[p].caught # None
    /\ "metadata" \in DOMAIN inv[p].result.contents
    /\ inv[p].result.contents.metadata.source = "mock"

\* what holds right after clearAuthentication(): nothing is stored,
\* isAuthenticated() is false, getAuthenticatedAgent() throws, and nothing
\* else has changed
Cleared ==
  /\ globalAgent' = NullAgent
  /\ ~isAuthenticated'
  /\ getAuthenticatedAgent' = Threw(NotAuthenticated)
  /\ UNCHANGED <<env, postCounter, inv>>

\* C17: clearAuthentication() can be called whatever is stored and whatever is
\* in flight, and never fails; every call ends with no agent stored,
\* isAuthenticated() false and getAuthenticatedAgent() throwing; a call with
\* nothing stored, a second call among them, changes nothing.
C17_ClearDiscards ==
  Quiet =>
    /\ ENABLED clearAuthentication
    /\ ~ENABLED (clearAuthentication /\ ~Cleared)
    /\ globalAgent = NullAgent => ~ENABLED (clearAuthentication /\ ~UNCHANGED vars)

\* the agent was cleared while a request dispatched on it is in flight
C17_Witness ==
  /\ globalAgent = NullAgent
  /\ \E p \in Procs :
       /\ inv[p].pc = "awaitApi"
       /\ inv[p].agent # NullAgent /\ inv[p].agent.session # UNDEFINED

\* C18: getAuthenticatedAgent() returns the stored agent when there is one and
\* throws the not-authenticated error when there is none; it never returns
\* null and never changes what is stored.  So a handler that goes on after
\* initializeBlueskyAuth either dispatches its request on the stored agent or
\* catches that error, and the stored agent is the same afterwards.
C18_GetAuthenticatedAgent ==
  /\ [](/\ globalAgent # NullAgent => getAuthenticatedAgent = Returned(globalAgent)
        /\ globalAgent = NullAgent => getAuthenticatedAgent = Threw(NotAuthenticated)
        /\ \A p \in Procs : inv[p].pc = "awaitApi" => inv[p].agent # NullAgent)
  /\ [][\A p \in Procs :
          (inv[p].pc = "initReturned" /\ inv'[p] # inv[p])
            => /\ globalAgent' = globalAgent
               /\ IF globalAgent = NullAgent
                  THEN Done(p)' /\ inv'[p].caught = Some(NotAuthenticated)
                  ELSE inv'[p].pc = "awaitApi" /\ inv'[p].agent = globalAgent]_vars

\* a handler has got the stored agent, which another invocation's login stored,
\* and has dispatched its request on it
C18_Witness ==
  \E p \in Procs :
    /\ inv[p].pc = "awaitApi"
    /\ globalAgent # NullAgent /\ inv[p].agent = globalAgent
    /\ globalAgent.id # p

\* C19: isAuthenticated() is true exactly when an agent is stored and that
\* agent holds a session; wherever getAuthenticatedAgent() throws,
\* isAuthenticated() is false.
C19_IsAuthenticated ==
  /\ isAuthenticated <=> (globalAgent # NullAgent /\ globalAgent.session # UNDEFINED)
  /\ getAuthenticatedAgent.threw => ~isAuthenticated

\* a handler's login has stored its agent with the session, so
\* isAuthenticated() is true when the handler goes on
C19_Witness ==
  /\ isAuthenticated
  /\ \E p \in Procs :
       /\ inv[p].pc = "initReturned" /\ inv[p].tool # InitCall
       /\ inv[p].agent = globalAgent /\ globalAgent.id = p

Unset(v) == v = UNDEFINED \/ v = ""

\* what getAuthConfigFromEnv() must return in environment e
ConfigExpected(e) ==
  IF Unset(e.BLUESKY_IDENTIFIER) \/ Unset(e.BLUESKY_PASSWORD)
  THEN NullConfig
  ELSE [identifier |-> e.BLUESKY_IDENTIFIER, password |-> e.BLUESKY_PASSWORD,
        service |-> e.BLUESKY_SERVICE]

\* C20: getAuthConfigFromEnv() returns null exactly when the identifier or the
\* password is unset or empty, and otherwise a config with both of them and
\* the endpoint as it is set; a config never lacks one of the two.  The agent
\* a handler logs in with is created for the endpoint of the config, and for
\* the default service when the config has none.
C20_AuthConfigFromEnv ==
  /\ getAuthConfigFromEnv(env) = ConfigExpected(env)
  /\ \A p \in Procs :
       (/\ inv[p].tool = DeleteTool /\ inv[p].pc # "idle"
        /\ DeletePostSchemaError(inv[p].args.postUri) = "")
         => /\ inv[p].authConfig = ConfigExpected(env)
            /\ inv[p].authConfig = NullConfig
                 <=> (/\ Done(p) /\ inv[p].via = "start"
                      /\ inv[p].result = deletePostNoCredentials)
            /\ inv[p].authConfig # NullConfig
                 => /\ ~Unset(inv[p].authConfig.identifier)
                    /\ ~Unset(inv[p].authConfig.password)
            /\ inv[p].pc = "awaitLogin"
                 => inv[p].agent.service
                      = IF env.BLUESKY_SERVICE = UNDEFINED
                        THEN "https://bsky.social"
                        ELSE OrElse(env.BLUESKY_SERVICE, "https://bsky.social")

\* a handler waits for its login on an agent created for the default service,
\* the endpoint being unset
C20_Witness ==
  /\ env.BLUESKY_SERVICE = UNDEFINED
  /\ \E p \in Procs :
       /\ inv[p].tool = DeleteTool /\ inv[p].pc = "awaitLogin"
       /\ inv[p].authConfig = [identifier |-> "alice.test", password |-> "pw-a",
                               service |-> UNDEFINED]
       /\ inv[p].agent.service = "https://bsky.social"

\* with the password empty the handler got no config and answered at once
C20_EmptyPasswordReached ==
  /\ env.BLUESKY_IDENTIFIER = "alice.test" /\ env.BLUESKY_PASSWORD = ""
  /\ \E p \in Procs :
       /\ Done(p) /\ inv[p].tool = DeleteTool /\ inv[p].via = "start"
       /\ inv[p].args.postUri = ValidUri
       /\ inv[p].result = deletePostNoCredentials

\* the first position from `from` on at which sub occurs in s, 0 if none
RECURSIVE IndexOf(_, _, _)
IndexOf(s, sub, from) ==
  IF from + Len(sub) - 1 > Len(s) THEN 0
  ELSE IF SubSeq(s, from, from + Len(sub) - 1) = sub THEN from
  ELSE IndexOf(s, sub, from + 1)

\* the URI a reader finds on the 'Post URI: ' line of a bluesky_post response
PostUriIn(text) ==
  LET i == IndexOf(text, "Post URI: ", 1) + Len("Post URI: ")
  IN SubSeq(text, i, IndexOf(text, "\n", i) - 1)

\* slot p holds a record of generateMockPostResponse, or a response built from one
DirectMockPost(p) == inv[p].tool = MockPostCall /\ inv[p].pc = "held"
FallbackMockPost(p) ==
  /\ inv[p].tool = PostTool /\ inv[p].pc \in {"done", "held"}
  /\ SyntheticPost(inv[p].result)
HoldsMockPost(p) == DirectMockPost(p) \/ FallbackMockPost(p)
MockPostUri(p) ==
  IF DirectMockPost(p) THEN inv[p].result.value.uri ELSE PostUriIn(inv[p].result.text)

\* C21: any two records of generateMockPostResponse that exist side by side,
\* whether from direct calls or from the fallbacks of overlapping bluesky_post
\* invocations, and all made in the same millisecond, have different uri and
\* (where the cid is visible) different cid; every call raises postCounter by
\* one, and nothing else changes it.
C21_MockPostsUnique ==
  /\ [](\A p, q \in Procs :
          (p # q /\ HoldsMockPost(p) /\ HoldsMockPost(q))
            => /\ MockPostUri(p) # MockPostUri(q)
               /\ (DirectMockPost(p) /\ DirectMockPost(q))
                    => inv[p].result.value.cid # inv[q].result.value.cid)
  /\ [][/\ postCounter' \in {postCounter, postCounter + 1}
        /\ (\E p \in Procs : ~HoldsMockPost(p) /\ HoldsMockPost(p)')
             <=> postCounter' = postCounter + 1]_vars

\* the fallbacks of two overlapping bluesky_post invocations have each made a
\* record, in the same millisecond
C21_Witness ==
  /\ \A p \in Procs : FallbackMockPost(p) /\ inv[p].caught # None
  /\ postCounter = 2

\* two records of direct calls side by side
C21_DirectCallsReached ==
  \A p \in Procs : DirectMockPost(p)

\* C22: the record generateMockPostResponse(text, media) returns has the text
\* it was given and, when media was given, the same URLs in the same order.
C22_MockPostKeepsInput ==
  \A p \in Procs :
    DirectMockPost(p)
      => LET response == inv[p].result.value
             args == inv[p].args
         IN /\ response.text = args.text
            /\ args.media # None
                 => /\ Len(response.media) = Len(args.media[1])
                    /\ \A i \in 1..Len(args.media[1]) :
                         response.media[i] = args.media[1][i]

\* a record made from a text and two media URLs
C22_Witness ==
  \E p \in Procs :
    /\ DirectMockPost(p)
    /\ inv[p].args.media # None /\ Len(inv[p].args.media[1]) = 2
    /\ inv[p].result.value.text = "bye"

\* C23: every record of generateMockPostResponse carries the author
\* did:plc:mockuser123 / mockuser.bsky.social / Mock User and reply, repost
\* and like counts of zero, and its media is the empty sequence when no media
\* was passed.
C23_MockPostFixedFields ==
  \A p \in Procs :
    DirectMockPost(p)
      => LET response == inv[p].result.value
         IN /\ response.author = [did |-> "did:plc:mockuser123",
                                  handle |-> "mockuser.bsky.social",
                                  displayName |-> "Mock User"]
            /\ response.replyCount = 0
            /\ response.repostCount = 0
            /\ response.likeCount = 0
            /\ inv[p].args.media = None => response.media = <<>>

\* two records made without media, from different texts
C23_Witness ==
  /\ \A p \in Procs : DirectMockPost(p) /\ inv[p].args.media = None
  /\ inv[1].args.text # inv[2].args.text

\* slot p holds what a direct call of generateMockTimeline returned
HoldsPage(p) == p \in HeldPages
PageOf(p) == inv[p].result.value
\* new Date(post.record.createdAt).getTime()
TimestampOf(post) == FromISOString(post.record.createdAt)

\* C24: generateMockTimeline(n) with n from 1 to 100 and no cursor returns n
\* entries, total n, URIs that differ pairwise, timestamps that decrease
\* strictly with the index, and the cursor String(n).
C24_PageOfLimit ==
  \A p \in Procs :
    (/\ inv[p].tool = MockTimelineCall /\ inv[p].pc = "held"
     /\ inv[p].args.limit \in 1..100 /\ inv[p].args.cursor = UNDEFINED)
      => /\ ~inv[p].result.threw
         /\ LET page == PageOf(p)
                n == inv[p].args.limit
            IN /\ Len(page.feed) = n
               /\ page.total = n
               /\ \A i, j \in 1..n : i # j => page.feed[i].uri # page.feed[j].uri
               /\ \A i \in 1..(n - 1) :
                    TimestampOf(page.feed[i + 1]) < TimestampOf(page.feed[i])
               /\ page.cursor = IntToStr(n)

\* a page of three entries made while the clock moved on
C24_Witness ==
  \E p \in Procs :
    /\ HoldsPage(p) /\ inv[p].args = [limit |-> 3, cursor |-> UNDEFINED]
    /\ Len(PageOf(p).feed) = 3
    /\ TimestampOf(PageOf(p).feed[1]) = 9000000
    /\ TimestampOf(PageOf(p).feed[2]) = 9000001 - 60000

\* C25: generateMockTimeline(0, c) returns no entries, total 0 and no cursor,
\* whatever c is: absent, a number, not a number.
C25_ZeroLimit ==
  \A p \in Procs :
    (/\ inv[p].tool = MockTimelineCall /\ inv[p].pc = "held"
     /\ inv[p].args.limit = 0)
      => /\ ~inv[p].result.threw
         /\ PageOf(p).feed = <<>>
         /\ PageOf(p).total = 0
         /\ PageOf(p).cursor = UNDEFINED

\* pages of limit 0 made from a cursor that is not a number and from the
\* cursor of another page
C25_Witness ==
  /\ \A p \in Procs : HoldsPage(p)
  /\ inv[1].args = [limit |-> 0, cursor |-> "abc"]
  /\ inv[2].args = [limit |-> 2, cursor |-> "3"] /\ PageOf(2).cursor = "5"

\* c is the decimal string of an integer s >= 0
DecimalString(c) ==
  /\ c # UNDEFINED /\ Len(c) > 0
  /\ \A i \in 1..Len(c) : IsDigit(CharAt(c, i))
  /\ Len(c) > 1 => CharAt(c, 1) # "0"

\* the index of an entry, read from 'Mock timeline post #<index + 1> - ...'
PostIndexOf(post) ==
  ParseInt(SubSeq(post.record.text, Len("Mock timeline post #") + 1,
                  Len(post.record.text)))[1] - 1

\* slot p holds the result, a page or an error, of a direct call with a
\* limit k > 0 and a cursor that is a decimal string
PagedCall(p) ==
  /\ inv[p].tool = MockTimelineCall /\ inv[p].pc = "held"
  /\ inv[p].args.limit > 0
  /\ DecimalString(inv[p].args.cursor)

\* page q was requested with the cursor that page p returned, for the same
\* number of entries, and not before p was finished
FollowsPage(q, p) ==
  /\ p # q /\ HoldsPage(p) /\ HoldsPage(q)
  /\ inv[p].args.limit > 0 /\ inv[q].args.limit = inv[p].args.limit
  /\ inv[q].args.cursor = PageOf(p).cursor
  /\ FromISOString(PageOf(q).metadata.generated_at)
       >= FromISOString(PageOf(p).metadata.generated_at)

\* what C26 says of one call, and of a page and the page that follows it
CursorAdvances(p) ==
  LET k == inv[p].args.limit
  IN /\ PageOf(p).cursor = IntToStr(ParseInt(inv[p].args.cursor)[1] + k)
     /\ \A i \in 1..k :
          PostIndexOf(PageOf(p).feed[i]) = ParseInt(inv[p].args.cursor)[1] + i - 1
PagesCompose(p, q) ==
  LET k == inv[p].args.limit
  IN inv[p].args.cursor = "0"
       => /\ PageOf(q).cursor = IntToStr(2 * k)
          /\ { PostIndexOf(PageOf(p).feed[i]) : i \in 1..k } = 0..(k - 1)
          /\ { PostIndexOf(PageOf(q).feed[i]) : i \in 1..k } = k..(2 * k - 1)

\* C26: for every k > 0 and every cursor that is the decimal string of an
\* integer s >= 0, generateMockTimeline(k, cursor) returns a page whose cursor
\* is the decimal string of s + k; a page of k from '0' and the page of k from
\* its cursor end at '2k' and hold the indexes 0..k-1 and k..2k-1.
C26_CursorAdvances ==
  /\ \A p \in Procs : PagedCall(p) => (~inv[p].result.threw /\ CursorAdvances(p))
  /\ \A p, q \in Procs : FollowsPage(q, p) => PagesCompose(p, q)

\* the same, of the cursors whose timestamps a Date can hold
C26_WithinDateRange ==
  /\ \A p \in Procs :
       (PagedCall(p) /\ ~DateOutOfRange(inv[p].args.cursor))
         => (~inv[p].result.threw /\ CursorAdvances(p))
  /\ \A p, q \in Procs : FollowsPage(q, p) => PagesCompose(p, q)

\* a page of two from '0' and the page of two from its cursor
C26_PagesReached ==
  /\ FollowsPage(2, 1)
  /\ inv[1].args = [limit |-> 2, cursor |-> "0"]
  /\ PageOf(2).cursor = "4"

\* C27: two calls of generateMockTimeline with the same limit and the same
\* cursor return the same page: the same uri, cid and counts entry for entry,
\* and the same cursor.
C27_Deterministic ==
  \A p, q \in Procs :
    (HoldsPage(p) /\ HoldsPage(q) /\ inv[p].args = inv[q].args)
      => /\ PageOf(p).cursor = PageOf(q).cursor
         /\ \A i \in 1..Len(PageOf(p).feed) :
              LET a == PageOf(p).feed[i]
                  b == PageOf(q).feed[i]
              IN /\ a.uri = b.uri /\ a.cid = b.cid
                 /\ a.replyCount = b.replyCount
                 /\ a.repostCount = b.repostCount
                 /\ a.likeCount = b.likeCount

\* C28: when a page of k > 0 entries is followed by the page requested with
\* its cursor, every entry of the second page has a timestamp strictly earlier
\* than every entry of the first, whatever time passed between the two calls
\* and between two entries.
C28_NewestFirstAcrossPages ==
  \A p, q \in Procs :
    FollowsPage(q, p)
      => \A i \in 1..Len(PageOf(p).feed), j \in 1..Len(PageOf(q).feed) :
           TimestampOf(PageOf(q).feed[j]) < TimestampOf(PageOf(p).feed[i])

\* C29: every error response of bluesky_delete_post, whatever its cause,
\* carries a message and the post URI the call was made with.
C29_DeleteErrorsCarryUri ==
  \A p \in Procs :
    (Done(p) /\ inv[p].tool = DeleteTool /\ inv[p].result.isError)
      => /\ Len(inv[p].result.text) > 0
         /\ Includes(inv[p].result.text, inv[p].args.postUri)

\* the same, of the errors built in the catch blocks of the handler
C29_CaughtErrorsCarryUri ==
  \A p \in Procs :
    (/\ Done(p) /\ inv[p].tool = DeleteTool /\ inv[p].result.isError
     /\ inv[p].caught # None)
      => Includes(inv[p].result.text, "\n\nURI: " \o inv[p].args.postUri)

\* the handler in slot p has read the credentials from the environment
ResolvedCredentials(p) ==
  /\ inv[p].tool = DeleteTool /\ inv[p].pc # "idle"
  /\ DeletePostSchemaError(inv[p].args.postUri) = ""

\* C30: the credentials are read from the environment once and stay as they
\* are: after a handler invocation has resolved them, a change or removal of
\* the variables does not change the credentials, or their absence, that a
\* later invocation sees.  So any two invocations work with the same
\* credentials.
C30_CredentialsFixed ==
  \A p, q \in Procs :
    (ResolvedCredentials(p) /\ ResolvedCredentials(q))
      => inv[p].authConfig = inv[q].authConfig

\* the step in which the live request of slot p fails
ApiFails(p) ==
  /\ inv[p].pc = "awaitApi"
  /\ Done(p)' /\ inv'[p].caught # None

AnsweredWithoutCredentials(p) ==
  /\ Done(p) /\ ~CredentialsPresent
  /\ \/ inv[p].tool \in PostTools
     \/ inv[p].tool = DeleteTool /\ DeletePostSchemaError(inv[p].args.postUri) = ""
     \/ inv[p].tool = TimelineResource /\ inv[p].args.parsedParams # NoArgs

\* C32: with the credentials absent from the environment a handler dispatches
\* no login and no live request, also while an agent is stored: it answers in
\* its first step, bluesky_post and the timeline with synthetic data,
\* bluesky_delete_post with the missing-credentials error.
C32_AbsentCredentialsNoLive ==
  \A p \in Procs :
    AnsweredWithoutCredentials(p)
      => /\ inv[p].via = "start"
         /\ inv[p].tool \in PostTools
              => ~inv[p].result.isError /\ SyntheticPost(inv[p].result)
         /\ inv[p].tool = DeleteTool => inv[p].result = deletePostNoCredentials
         /\ inv[p].tool = TimelineResource
              => /\ "metadata" \in DOMAIN inv[p].result.contents
                 /\ inv[p].result.contents.metadata.source = "mock"

\* the part of C32 that is about the live API: no login and no live request
\* are dispatched, and bluesky_delete_post names the missing credentials
C32_NoLiveRequest ==
  \A p \in Procs :
    AnsweredWithoutCredentials(p)
      => /\ inv[p].via = "start"
         /\ inv[p].tool = DeleteTool => inv[p].result = deletePostNoCredentials

\* that part happens while an agent is stored
C32_StoredSessionReached ==
  \E p \in Procs :
    /\ AnsweredWithoutCredentials(p) /\ inv[p].tool = DeleteTool
    /\ globalAgent # NullAgent

\* the login of slot p was in flight when clearAuthentication ran
Overtaken(p) == inv[p].pc = "awaitLogin" /\ inv[p].via = "cleared"

\* C33: a login that was in flight when clearAuthentication ran installs no
\* session when it resolves: globalAgent stays as it is, so that after a clear
\* only a call of initializeBlueskyAuth started later stores a session.
C33_OvertakenLoginInstallsNothing ==
  [][\A p \in Procs :
       (Overtaken(p) /\ LoginSucceeds(p)) => globalAgent' = globalAgent]_vars

\* what the code does instead: the overtaken login stores its agent
C33_OvertakenLoginStores ==
  [][\A p \in Procs :
       (Overtaken(p) /\ LoginSucceeds(p))
         => globalAgent' = [inv[p].agent EXCEPT
                              !.session = SessionOf(inv[p].authConfig.identifier)]]_vars

\* a handler whose login was overtaken by a clear holds the stored agent
C33_OvertakenReached ==
  \E p \in Procs :
    /\ inv[p].pc = "initReturned" /\ inv[p].via = "cleared"
    /\ globalAgent = inv[p].agent

\* C34: an invocation whose initializeBlueskyAuth call returned never has
\* the following getAuthenticatedAgent raise: no handler returns from the
\* segment after that call with the not-authenticated error in its catch block.
C34_AgentAfterInit ==
  \A p \in Procs :
    (Done(p) /\ inv[p].tool # InitCall /\ inv[p].via = "initReturned")
      => inv[p].caught # Some(NotAuthenticated)

\* what holds instead: getAuthenticatedAgent raises in that segment exactly
\* when nothing is stored by then, and nothing else makes a handler return
\* from it
C34_RaisesOnlyWhenCleared ==
  [][\A p \in Procs :
       (inv[p].pc = "initReturned" /\ inv'[p].pc # "initReturned")
         => IF globalAgent = NullAgent
            THEN Done(p)' /\ inv'[p].caught = Some(NotAuthenticated)
            ELSE inv'[p].pc = "awaitApi" /\ inv'[p].agent = globalAgent]_vars

\* a handler got past getAuthenticatedAgent after its initializeBlueskyAuth
C34_PassedReached ==
  \E p \in Procs :
    /\ inv[p].pc = "awaitApi" /\ inv[p].tool = DeleteTool
    /\ inv[p].agent = globalAgent

\* C35: bluesky_delete_post reports post-not-found only when agent.deletePost
\* was dispatched and rejected, and a rejected login is reported neither as
\* post-not-found nor as unauthorized.
C35_NotFoundOnlyFromDelete ==
  \A p \in Procs :
    (Done(p) /\ inv[p].tool = DeleteTool)
      => /\ ReportsNotFound(inv[p].result) => inv[p].via = "awaitApi"
         /\ inv[p].via = "awaitLogin"
              => ~ReportsNotFound(inv[p].result) /\ ~ReportsUnauthorized(inv[p].result)

\* what the code does: a rejected login is classified by the text of the
\* error initializeBlueskyAuth threw, like any other error
C35_LoginFailureClassifiedByText ==
  \A p \in Procs :
    (Done(p) /\ inv[p].tool = DeleteTool /\ inv[p].via = "awaitLogin")
      => /\ inv[p].caught # None
         /\ ReportsNotFound(inv[p].result) <=> MatchesNotFound(MessageOf(inv[p].caught[1]))

\* a rejected login reported with its own message
C35_LoginFailureReached ==
  \E p \in Procs :
    /\ Done(p) /\ inv[p].tool = DeleteTool /\ inv[p].via = "awaitLogin"
    /\ ~ReportsNotFound(inv[p].result)
    /\ inv[p].result.isError

\* slot p holds a synthetic page made for a cursor that was given and a limit
\* the handler accepts
PageForCursor(p) ==
  /\ inv[p].tool = MockTimelineCall /\ inv[p].pc = "held"
  /\ inv[p].args.cursor # UNDEFINED
  /\ inv[p].args.limit \in MinLimit..MaxLimit
  /\ ~inv[p].result.threw

\* C36: whatever cursor a synthetic page was made for, with a limit from 1 to
\* 100, the page's cursor is the decimal string of a non-negative integer.
C36_CursorIsDecimal ==
  \A p \in Procs :
    PageForCursor(p) => DecimalString(inv[p].result.value.cursor)

\* what the code gives: the cursor is String(parseInt(cursor) + limit), of
\* whatever sign
C36_CursorIsStartPlusLimit ==
  \A p \in Procs :
    PageForCursor(p)
      => /\ ParseInt(inv[p].args.cursor) # None
         /\ inv[p].result.value.cursor =
              IntToStr(ParseInt(inv[p].args.cursor)[1] + inv[p].args.limit)

\* a page made for the cursor of an earlier page
C36_FedBackReached ==
  \E p, q \in Procs :
    /\ PageForCursor(p) /\ PageForCursor(q)
    /\ inv[q].args.cursor = inv[p].result.value.cursor
    /\ inv[p].args.cursor = "0"

\* an invocation that is waiting for a request or for its continuation
InFlight(p) == inv[p].pc \in {"awaitLogin", "initReturned", "awaitApi"}

\* what a caller receives is a response: a tool result or the contents of a
\* resource, not a thrown value
IsResponse(result) ==
  /\ "threw" \notin DOMAIN result
  /\ "isError" \in DOMAIN result \/ "contents" \in DOMAIN result

\* C37: when every dispatched request settles, every invocation of bluesky_post,
\* bluesky_delete_post and bluesky-timeline that is in flight returns, and
\* whatever an invocation returns is one response, never a thrown error.
C37_EveryInvocationResponds ==
  \A p \in Procs :
    /\ InFlight(p) ~> Done(p)
    /\ [](Done(p) /\ inv[p].tool # InitCall => IsResponse(inv[p].result))

\* a handler returned a response after getAuthenticatedAgent threw in it
C37_Witness ==
  \E p \in Procs :
    /\ Done(p) /\ inv[p].tool = TimelineResource /\ inv[p].via = "initReturned"
    /\ inv[p].caught = Some(NotAuthenticated)
    /\ IsResponse(inv[p].result)

====
